---- MODULE Spec2Model ----
(***************************************************************************)
(* Model of the signature validator of nextjs-x509                         *)
(* (src/lib/crypto/signature-validator.ts).                                *)
(*                                                                         *)
(* One call of validateSignature is a sequence of steps, one per block of  *)
(* the function body.  The arguments of the call are fixed when it is      *)
(* made; the model draws each part of them at the first statement that     *)
(* reads it (the CMS parse result at line 31, the embedded certificates    *)
(* at line 158, the SignerInfo at line 188, options.trustedCAs at line     *)
(* 86, the signing-time attribute at line 325).                            *)
(*                                                                         *)
(* Dates are counted in days.  The jsrsasign primitives are modelled as    *)
(* ideal ones: a digest is the pair (algorithm, input), a signature        *)
(* verifies under exactly the key that made it, over exactly the digest    *)
(* that was signed.                                                        *)
(*                                                                         *)
(* Further specifications of the module: SignSpec (createSignature and a   *)
(* validation of the string it returns, or of a string made elsewhere),    *)
(* KeySpec (importPrivateKey, validateKeyPair), PageSpec (the sign page),  *)
(* ExpirySpec (checkCertificateExpiration as time passes), ParserSpec      *)
(* (formatFingerprint, parsePublicKey), UploadSpec (the upload form of the *)
(* validate page), ValidatePageSpec and ValidatePageFairSpec (the validate *)
(* page) and ConcSpec (calls of the library in flight together).  Each     *)
(* leaves the variables of the others at their idle values.                *)
(***************************************************************************)
EXTENDS Integers, Sequences, FiniteSets, TLC

\* ---------------------------------------------------------------- bounds
MaxTime == 2
MaxCAs == 2
MaxDoc == 1

\* ------------------------------------------------------ program constants
\* 365 * 24 * 60 * 60 * 1000 ms, in days
maxAge == 365

TimeStep == maxAge
Times == {k * TimeStep : k \in 0..MaxTime}
Docs == 0..MaxDoc

\* an absent optional Date (signedAt?: Date)
Undefined == -1

CNs == {"Root", "Leaf"}
Keys == {"rsa1", "rsa2", "ec1"}
KeyType(k) == IF k = "ec1" THEN "ECDSA" ELSE "RSA"
DigestAlgs == {"sha256", "sha512"}

\* --------------------------------------------------------- certificates
\* SHA-256 over the DER bytes of the whole certificate: one value per
\* certificate content
calculateFingerprints(raw) ==
  <<raw.issuerCN, raw.subjectCN, raw.pubKey, raw.signedBy>>
   \o <<raw.notBefore, raw.notAfter>>

parseCertificate(raw) ==
  [issuerCN  |-> raw.issuerCN,
   subjectCN |-> raw.subjectCN,
   notBefore |-> raw.notBefore,
   notAfter  |-> raw.notAfter,
   pubKey    |-> raw.pubKey,
   signedBy  |-> raw.signedBy,
   sha256    |-> calculateFingerprints(raw)]

\* keys of issuing CAs; keys a signer certificate may carry
IssuerKeys == {"rsa1", "rsa2"}
SignerKeys == {"rsa1", "ec1"}

\* the certificate embedded in a blob: valid for a time, and signed with
\* its own key when it names itself as issuer
RawCerts ==
  {raw \in [issuerCN: CNs, subjectCN: {"Leaf"}, notBefore: Times, notAfter: Times,
            pubKey: SignerKeys, signedBy: IssuerKeys \cup SignerKeys]
     : /\ raw.notBefore < raw.notAfter
       /\ IF raw.issuerCN = raw.subjectCN THEN raw.signedBy = raw.pubKey
          ELSE raw.signedBy \in IssuerKeys}

NoCert ==
  [issuerCN |-> "", subjectCN |-> "", notBefore |-> 0, notAfter |-> 0,
   pubKey |-> "", signedBy |-> "", sha256 |-> <<>>]

\* -------------------------------------------------- jsrsasign primitives
\* the bytes of a document, not yet hashed
DocumentHex(d) == [doc |-> d, algs |-> <<>>]

\* a digest that does not depend on the bytes hashed
hashHex_colliding(x, alg) == [doc |-> 0, algs |-> Append(x.algs, alg)]

\* KJUR.crypto.Util.hashHex(hex, alg)
hashHex(x, alg) == [doc |-> x.doc, algs |-> Append(x.algs, alg)]

\* new Signature({alg: h + "with" + scheme}); init(prvKey); updateHex(x); sign()
Sign(k, h, x) == [key |-> k, scheme |-> KeyType(k), digest |-> hashHex(x, h)]

\* sign() of a Signature whose algorithm name ends in the scheme: the
\* primitive is picked by the type of the key object handed to init; an
\* EC key signs with ECDSA under any name, an RSA key is refused under a
\* name that is not RSA
CanSign(k, scheme) == KeyType(k) = "ECDSA" \/ scheme = "RSA"

\* new Signature({alg: h + "withRSA"}); init(pubKey); updateHex(x); verify(sv)
\* (verify picks the primitive by the type of pubKey; a signature value of
\* another primitive does not verify or makes verify throw)
VerifyRSA(pubKey, h, x, sv) ==
  /\ sv.scheme = KeyType(pubKey)
  /\ sv.key = pubKey
  /\ sv.digest = hashHex(x, h)

\* x509.verifySignature(issuerPubKey) on the certificate
X509VerifySignature(certificate, issuerPubKey) ==
  certificate.signedBy = issuerPubKey

\* ------------------------------------------------------------ SignerInfo
\* signature values a blob may carry: made over the document digest (as
\* createSignature does, lines 19-30) or over the document itself
SigValues ==
  {Sign(k, h, hashHex(DocumentHex(d), h)) : k \in SignerKeys, h \in DigestAlgs, d \in Docs}
  \cup {Sign(k, h, DocumentHex(d)) : k \in SignerKeys, h \in DigestAlgs, d \in Docs}

NoSigValue == [key |-> "", scheme |-> "", digest |-> DocumentHex(0)]

\* signedData.signerInfos as the validator reads it: the array itself
\* (absent, empty or with a first element), the first element's
\* digestAlgorithm and signature
SignerInfoInputs ==
  [infos: {"absent", "empty"}, digestAlgorithm: {"undefined"},
   signature: {NoSigValue}]
  \cup
  [infos: {"present"}, digestAlgorithm: DigestAlgs \cup {"undefined", "unsupported"},
   signature: SigValues \cup {NoSigValue}]

\* lines 176-212
verifySignatureCryptography(document, si, certificate) ==
  IF si.infos = "absent" THEN FALSE                 \* TypeError, caught at 209
  ELSE
    LET sigAlg == IF si.digestAlgorithm = "undefined" THEN "sha256"
                  ELSE si.digestAlgorithm
    IN  IF sigAlg \notin DigestAlgs THEN FALSE     \* hashHex throws, caught
        ELSE IF si.signature = NoSigValue THEN FALSE
        ELSE VerifyRSA(certificate.pubKey, sigAlg,
                       hashHex(DocumentHex(document), sigAlg), si.signature)

\* lines 217-241
checkCertificateValidity(certificate, allowExpired, t) ==
  IF t < certificate.notBefore
    THEN [valid |-> FALSE, message |-> "Certificate is not yet valid."]
  ELSE IF t > certificate.notAfter
    THEN [valid |-> allowExpired, message |-> "Certificate expired"]
  ELSE [valid |-> TRUE, message |-> "Certificate is valid."]

\* Array.prototype.find: the first element satisfying the test
FindIssuer(certificate, trustedCAs) ==
  LET hits == {i \in 1..Len(trustedCAs) : trustedCAs[i].subjectCN = certificate.issuerCN}
  IN  IF hits = {} THEN 0 ELSE CHOOSE i \in hits : \A j \in hits : i <= j

\* lines 279-311 without the verification of lines 291-306: a trusted CA
\* of the issuer's name is enough
validateIssuedCertificate_noVerify(certificate, trustedCAs) ==
  LET i == FindIssuer(certificate, trustedCAs)
  IN  IF i = 0
        THEN [valid |-> FALSE, message |-> "Certificate issuer not found in trusted CAs."]
      ELSE [valid |-> TRUE, message |-> "Certificate chain is valid."]

\* lines 279-311: the signer certificate names another issuer
validateIssuedCertificate(certificate, trustedCAs) ==
  LET i == FindIssuer(certificate, trustedCAs)
  IN  IF i = 0
        THEN [valid |-> FALSE, message |-> "Certificate issuer not found in trusted CAs."]
      ELSE IF ~X509VerifySignature(certificate, trustedCAs[i].pubKey)
        THEN [valid |-> FALSE, message |-> "Certificate signature verification failed."]
      ELSE [valid |-> TRUE, message |-> "Certificate chain is valid."]

\* lines 246-318 without the early return of lines 251-256
validateCertificateChain_noSkip(certificate, trustedCAs) ==
  IF certificate.issuerCN = certificate.subjectCN
    THEN IF \E i \in 1..Len(trustedCAs) : trustedCAs[i].sha256 = certificate.sha256
           THEN [valid |-> TRUE, message |-> "Self-signed certificate is trusted."]
           ELSE [valid |-> FALSE, message |-> "Self-signed certificate is not in trusted CAs."]
  ELSE validateIssuedCertificate(certificate, trustedCAs)

\* lines 246-318 with the test of line 263 comparing subject names
validateCertificateChain_byName(certificate, trustedCAs) ==
  IF Len(trustedCAs) = 0
    THEN [valid |-> TRUE, message |-> "Chain validation skipped (no trusted CAs provided)."]
  ELSE IF certificate.issuerCN = certificate.subjectCN
    THEN IF \E i \in 1..Len(trustedCAs) : trustedCAs[i].subjectCN = certificate.subjectCN
           THEN [valid |-> TRUE, message |-> "Self-signed certificate is trusted."]
           ELSE [valid |-> FALSE, message |-> "Self-signed certificate is not in trusted CAs."]
  ELSE validateIssuedCertificate(certificate, trustedCAs)

\* lines 246-318; an exception inside the try of line 258 is answered
\* with valid: false (lines 312-317)
validateCertificateChain(certificate, trustedCAs) ==
  IF Len(trustedCAs) = 0
    THEN [valid |-> TRUE, message |-> "Chain validation skipped (no trusted CAs provided)."]
  ELSE IF certificate.issuerCN = certificate.subjectCN
    THEN IF \E i \in 1..Len(trustedCAs) : trustedCAs[i].sha256 = certificate.sha256
           THEN [valid |-> TRUE, message |-> "Self-signed certificate is trusted."]
           ELSE [valid |-> FALSE, message |-> "Self-signed certificate is not in trusted CAs."]
  ELSE validateIssuedCertificate(certificate, trustedCAs)

\* lines 348-363 without the age test of lines 357-360
validateTimestampValidity_noMaxAge(ts, t) ==
  IF ts > t THEN FALSE ELSE TRUE

\* lines 348-363
validateTimestampValidity(ts, t) ==
  IF ts > t THEN FALSE
  ELSE IF t - ts > maxAge THEN FALSE
  ELSE TRUE

\* ---------------------------------------------------------------- results
Entry(code, message, severity) ==
  [code |-> code, message |-> message, severity |-> severity]

\* lines 368-389
createValidationResult(valid, status, errs, warns, ts) ==
  [valid |-> valid, status |-> status, errors |-> errs, warnings |-> warns,
   details |-> [signatureValid |-> FALSE, certificateValid |-> FALSE,
                chainValid |-> FALSE, timestampValid |-> "undefined",
                certificateChain |-> <<>>, signedAt |-> Undefined,
                validatedAt |-> ts],
   timestamp |-> ts]

NoResult ==
  [valid |-> FALSE, status |-> "unknown", errors |-> <<>>, warnings |-> <<>>,
   details |-> [signatureValid |-> FALSE, certificateValid |-> FALSE,
                chainValid |-> FALSE, timestampValid |-> "undefined",
                certificateChain |-> <<>>, signedAt |-> Undefined,
                validatedAt |-> 0],
   timestamp |-> 0]

\* ------------------------------------------------------------------ state
VARIABLES
  pc,              \* the block of validateSignature about to run
  exit,            \* the return statement that produced the result
  now,             \* the value of new Date() during the call
  options,         \* allowExpiredCertificates, validateTimestamp
  trustedCAs,      \* options.trustedCAs: given or not, and the list
  cms,             \* what getCMSSignedData did with the blob
  certs,           \* what signedData.certs held
  hasSignerInfo,   \* signedData.signerInfos[0] exists
  signerCert,
  signatureValid,
  certValid,
  chainValid,
  signedAt,
  errors,
  warnings,
  timestamp,
  result

vars == <<pc, exit, now, options, trustedCAs, cms, certs, hasSignerInfo,
          signerCert, signatureValid, certValid, chainValid, signedAt,
          errors, warnings, timestamp, result>>

inputVars == <<now, options, timestamp>>
localVars == <<signerCert, signatureValid, certValid, chainValid, signedAt>>

\* the state of the other operations of the library; the validator's
\* steps leave it alone
VARIABLES
  signCall,        \* the last call of createSignature: arguments and outcome
  blob,            \* the signature string at hand
  checked,         \* the last call of validateSignature on blob
  validFor,        \* the documents blob has verified for
  page,            \* the React state of SignPage
  keyCall,         \* the last call of importPrivateKey
  pairCall,        \* the last call of validateKeyPair
  expCert,         \* the certificate checkCertificateExpiration is asked about
  clock,           \* new Date() in milliseconds
  expiry,          \* what checkCertificateExpiration answers at clock
  earlier          \* the clock and the answer of the check before

signVars == <<signCall, blob, checked, validFor>>
keyVars == <<page, keyCall, pairCall>>
expiryVars == <<expCert, clock, expiry, earlier>>

\* the state of the certificate parser's helpers, of the validate page with
\* its upload form, and of calls of the library in flight together
VARIABLES
  fingerprint,     \* the string formatFingerprint is given
  formatted,       \* what formatFingerprint returns for it
  pubKey,          \* the key object parsePublicKey is given
  publicKey,       \* what parsePublicKey returns or throws for it
  upload,          \* the React state of ValidationUpload
  loads,           \* the upload handlers of ValidationUpload in flight
  vpage,           \* the React state of ValidatePage
  run,             \* the handleValidate of ValidatePage in flight
  calls            \* the frames of the library calls in flight

parserVars == <<fingerprint, formatted, pubKey, publicKey>>
uiVars == <<upload, loads, vpage, run>>
concVars == <<calls>>
moreVars == <<parserVars, uiVars, concVars>>

NoRaw ==
  [issuerCN |-> "", subjectCN |-> "", notBefore |-> 0, notAfter |-> 0,
   pubKey |-> "", signedBy |-> ""]

NoSignerInfo ==
  [infos |-> "absent", digestAlgorithm |-> "undefined", signature |-> NoSigValue]

\* a signature string: its text encoding, what the bytes are, and for a
\* CMS SignedData the embedded certificate, the first SignerInfo and its
\* signing-time attribute
NoBlob ==
  [encoding |-> "none", syntax |-> "none", certs |-> "absent", cert |-> NoRaw,
   si |-> NoSignerInfo, signingTime |-> Undefined]

NoAlgorithm == [hash |-> "", scheme |-> ""]

NoSignatureOptions == [algorithm |-> "", format |-> "", includeTimestamp |-> FALSE]

NoSignatureResult ==
  [signature |-> NoBlob, format |-> "", algorithm |-> NoAlgorithm,
   certificate |-> NoCert, timestamp |-> Undefined,
   metadata |-> [signedAt |-> Undefined, signerInfo |-> "",
                 algorithm |-> NoAlgorithm, hashAlgorithm |-> "",
                 certificateFingerprint |-> <<>>]]

NoSignCall ==
  [outcome |-> "none", document |-> 0, certificate |-> NoCert, privateKey |-> "",
   options |-> NoSignatureOptions, at |-> 0, result |-> NoSignatureResult]

NoValidationOptions ==
  [allowExpiredCertificates |-> FALSE, validateTimestamp |-> FALSE,
   trustedCAs |-> <<>>]

NoChecked ==
  [made |-> FALSE, document |-> 0, options |-> NoValidationOptions, at |-> 0,
   result |-> NoResult]

\* no signing or validation of a kept signature string is under way
SignIdle ==
  /\ signCall = NoSignCall
  /\ blob = NoBlob
  /\ checked = NoChecked
  /\ validFor = {}

\* no key material (null)
NoKey == ""

\* the text of a key file: whether it contains ENCRYPTED, the key it
\* holds, and the password that decrypts it when it is encrypted
NoKeyFile == [marked |-> FALSE, body |-> NoKey, secret |-> ""]

NoKeyCall ==
  [made |-> FALSE, keyData |-> NoKeyFile, password |-> "undefined",
   outcome |-> "none", key |-> NoKey, decrypted |-> FALSE, decoded |-> FALSE]

NoPairCall ==
  [made |-> FALSE, privateKey |-> NoKey, certificate |-> NoCert,
   outcome |-> "none", value |-> FALSE]

\* part_008 lines 19-31: the state SignPage starts with; signs counts the
\* times the key in privateKey was handed to signDocument
InitialPage ==
  [certificate |-> NoCert, privateKey |-> NoKey, document |-> Undefined,
   options |-> [algorithm |-> "SHA256withRSA", format |-> "pkcs7",
                includeTimestamp |-> FALSE],
   result |-> NoSignatureResult, error |-> "", isLoading |-> FALSE,
   keyPassword |-> "", signs |-> 0]

KeyIdle ==
  /\ page = InitialPage
  /\ keyCall = NoKeyCall
  /\ pairCall = NoPairCall

NoExpiry == [isExpired |-> FALSE, daysUntilExpiration |-> 0]

NoEarlier == [made |-> FALSE, clock |-> 0, expiry |-> NoExpiry]

ExpiryIdle ==
  /\ expCert = [notAfter |-> 0]
  /\ clock = 0
  /\ expiry = NoExpiry
  /\ earlier = NoEarlier

NoCheck == [valid |-> FALSE, message |-> ""]

\* a key object of jsrsasign that is none of its key classes
NoPubKey == [class |-> "none", bits |-> 0, curveName |-> ""]

NoPublicKey == [outcome |-> "none", algorithm |-> "", keySize |-> 0, curve |-> ""]

ParserIdle ==
  /\ fingerprint = <<>>
  /\ formatted = <<>>
  /\ pubKey = NoPubKey
  /\ publicKey = NoPublicKey

\* no file (null)
NoFile == [data |-> Undefined, readable |-> FALSE]

NoSignatureFile == [text |-> NoBlob, readable |-> FALSE]

\* ValidationUpload.tsx lines 23-26: the state the upload form starts with
InitialUpload ==
  [document |-> NoFile, signature |-> NoBlob, trustedCAs |-> <<>>,
   isLoading |-> FALSE]

\* an upload handler of the form in flight: the file (handleSignatureUpload)
\* or the files (handleCAUpload) it is reading, the certificates parsed so
\* far, and whether the form that started it is still mounted
NoLoad ==
  [kind |-> "none", live |-> FALSE, file |-> NoSignatureFile, files |-> <<>>,
   certs |-> <<>>]

\* the most upload handlers in flight together
MaxLoads == 2

NoLoads == [i \in 1..MaxLoads |-> NoLoad]

\* page.tsx lines 18-26: the state ValidatePage starts with
InitialValidatePage ==
  [result |-> NoResult, signerCertificate |-> NoCert, error |-> "null",
   isValidating |-> FALSE,
   options |-> [allowExpiredCertificates |-> FALSE, validateTimestamp |-> FALSE]]

\* page.tsx lines 28-59: the handleValidate in flight, the argument and the
\* options it was called with, and what it has set since
NoRun ==
  [stage |-> "idle", document |-> NoFile, signature |-> NoBlob,
   trustedCAs |-> <<>>,
   options |-> [allowExpiredCertificates |-> FALSE, validateTimestamp |-> FALSE],
   outcome |-> "none"]

\* the validate page is not rendered: no component holds any state
NotRendered == <<>>

UiIdle ==
  /\ upload = NotRendered
  /\ loads = NotRendered
  /\ vpage = NotRendered
  /\ run = NotRendered

\* the most calls of the library in flight together
MaxCalls == 2

NoCreated == [outcome |-> "none", result |-> NoSignatureResult]

\* the frame of a call: the function, where it stands, its arguments with
\* the clock it reads, its local variables, and what it has returned
NoFrame ==
  [fn |-> "none", pc |-> "idle", document |-> 0, signature |-> NoBlob,
   options |-> NoValidationOptions, at |-> 0, failure |-> "null",
   certificate |-> NoCert, privateKey |-> NoKey,
   signOptions |-> NoSignatureOptions,
   errors |-> <<>>, warnings |-> <<>>, signerCert |-> NoCert,
   signatureValid |-> FALSE, certValid |-> NoCheck,
   result |-> NoResult, created |-> NoCreated]

\* no call of the library is in flight
ConcIdle == calls = <<>>

MoreIdle ==
  /\ ParserIdle
  /\ UiIdle
  /\ ConcIdle

NoTrustedCAs == [given |-> FALSE, list |-> <<>>]

Init ==
  /\ pc = "idle"
  /\ exit = "none"
  /\ now = 0
  /\ options = [allowExpiredCertificates |-> FALSE, validateTimestamp |-> FALSE]
  /\ trustedCAs = NoTrustedCAs
  /\ cms = "unread"
  /\ certs = "unread"
  /\ hasSignerInfo = FALSE
  /\ signerCert = NoCert
  /\ signatureValid = FALSE
  /\ certValid = NoCheck
  /\ chainValid = NoCheck
  /\ signedAt = Undefined
  /\ errors = <<>>
  /\ warnings = <<>>
  /\ timestamp = 0
  /\ result = NoResult
  /\ SignIdle
  /\ KeyIdle
  /\ MoreIdle
  /\ ExpiryIdle

\* lines 15-26: a call with its arguments; errors and warnings start empty
Call ==
  /\ pc \in {"idle", "done"}
  /\ UNCHANGED <<signVars, keyVars, expiryVars, moreVars>>
  /\ \E t \in Times, allow \in BOOLEAN, vt \in BOOLEAN :
       /\ now' = t
       /\ timestamp' = t
       /\ options' = [allowExpiredCertificates |-> allow, validateTimestamp |-> vt]
  /\ pc' = "parse"
  /\ exit' = "none"
  /\ trustedCAs' = NoTrustedCAs
  /\ cms' = "unread"
  /\ certs' = "unread"
  /\ hasSignerInfo' = FALSE
  /\ signerCert' = NoCert
  /\ signatureValid' = FALSE
  /\ certValid' = NoCheck
  /\ chainValid' = NoCheck
  /\ signedAt' = Undefined
  /\ errors' = <<>>
  /\ warnings' = <<>>
  /\ result' = NoResult

\* lines 140-148: the catch block
Catch ==
  /\ errors' = Append(errors, Entry("VALIDATION_ERROR", "Validation failed", "critical"))
  /\ result' = createValidationResult(FALSE, "invalid", errors', warnings, timestamp)
  /\ pc' = "done"
  /\ exit' = "catch"
  /\ UNCHANGED warnings

\* lines 29-41
Parse ==
  /\ pc = "parse"
  /\ UNCHANGED <<signVars, keyVars, expiryVars, moreVars>>
  /\ \E outcome \in {"null", "throws", "object"} :
       /\ cms' = outcome
       /\ CASE outcome = "null" ->
                 /\ errors' = Append(errors, Entry("INVALID_SIGNATURE_FORMAT",
                                 "Invalid signature format. Expected PKCS#7/CMS.", "critical"))
                 /\ result' = createValidationResult(FALSE, "invalid", errors', warnings, timestamp)
                 /\ pc' = "done"
                 /\ exit' = "format"
                 /\ UNCHANGED warnings
            [] outcome = "throws" -> Catch
            [] outcome = "object" ->
                 /\ pc' = "extract"
                 /\ UNCHANGED <<exit, errors, warnings, result>>
  /\ UNCHANGED <<inputVars, localVars, trustedCAs, certs, hasSignerInfo>>

\* lines 43-53 without the return of line 52: the missing certificate is
\* reported and the checks go on with no certificate
Extract_noReturn ==
  /\ pc = "extract"
  /\ UNCHANGED <<signVars, keyVars, expiryVars, moreVars>>
  /\ \/ \E c \in {"absent", "empty", "unparsable"} :
          /\ certs' = c
          /\ errors' = Append(errors, Entry("NO_SIGNER_CERTIFICATE",
                          "No signer certificate found in signature.", "critical"))
          /\ pc' = "verify"
          /\ UNCHANGED <<signerCert, exit, result>>
     \/ \E raw \in RawCerts :
          /\ certs' = "ok"
          /\ signerCert' = parseCertificate(raw)
          /\ pc' = "verify"
          /\ UNCHANGED <<exit, errors, result>>
  /\ UNCHANGED <<inputVars, trustedCAs, cms, hasSignerInfo, signatureValid,
                 certValid, chainValid, signedAt, warnings>>

\* lines 43-53 with extractSignerCertificate, lines 154-171
Extract ==
  /\ pc = "extract"
  /\ UNCHANGED <<signVars, keyVars, expiryVars, moreVars>>
  /\ \/ \E c \in {"absent", "empty", "unparsable"} :
          /\ certs' = c
          /\ errors' = Append(errors, Entry("NO_SIGNER_CERTIFICATE",
                          "No signer certificate found in signature.", "critical"))
          /\ result' = createValidationResult(FALSE, "invalid", errors', warnings, timestamp)
          /\ pc' = "done"
          /\ exit' = "nocert"
          /\ UNCHANGED signerCert
     \/ \E raw \in RawCerts :
          /\ certs' = "ok"
          /\ signerCert' = parseCertificate(raw)
          /\ pc' = "verify"
          /\ UNCHANGED <<exit, errors, result>>
  /\ UNCHANGED <<inputVars, trustedCAs, cms, hasSignerInfo, signatureValid,
                 certValid, chainValid, signedAt, warnings>>

\* lines 55-63 returning as soon as the verification has failed
Verify_shortCircuit ==
  /\ pc = "verify"
  /\ UNCHANGED <<signVars, keyVars, expiryVars, moreVars>>
  /\ \E document \in Docs, si \in SignerInfoInputs :
       /\ hasSignerInfo' = (si.infos = "present")
       /\ signatureValid' = verifySignatureCryptography(document, si, signerCert)
  /\ IF ~signatureValid'
       THEN /\ errors' = Append(errors, Entry("SIGNATURE_VERIFICATION_FAILED",
                        "Signature verification failed. The document may have been modified.",
                        "critical"))
            /\ result' = createValidationResult(FALSE, "invalid", errors', warnings, timestamp)
            /\ pc' = "done"
            /\ exit' = "verify"
       ELSE /\ pc' = "validity"
            /\ UNCHANGED <<errors, exit, result>>
  /\ UNCHANGED <<inputVars, trustedCAs, cms, certs, signerCert, certValid,
                 chainValid, signedAt, warnings>>

\* lines 55-63
Verify ==
  /\ pc = "verify"
  /\ UNCHANGED <<signVars, keyVars, expiryVars, moreVars>>
  /\ \E document \in Docs, si \in SignerInfoInputs :
       /\ hasSignerInfo' = (si.infos = "present")
       /\ signatureValid' = verifySignatureCryptography(document, si, signerCert)
  /\ errors' = IF ~signatureValid'
                 THEN Append(errors, Entry("SIGNATURE_VERIFICATION_FAILED",
                        "Signature verification failed. The document may have been modified.",
                        "critical"))
                 ELSE errors
  /\ pc' = "validity"
  /\ UNCHANGED <<inputVars, trustedCAs, cms, certs, signerCert, certValid,
                 chainValid, signedAt, warnings, exit, result>>

\* lines 65-81 with a slip: nothing is recorded when expired certificates
\* are allowed
Validity_silentWhenAllowed ==
  /\ pc = "validity"
  /\ UNCHANGED <<signVars, keyVars, expiryVars, moreVars>>
  /\ certValid' = checkCertificateValidity(signerCert, options.allowExpiredCertificates, now)
  /\ IF ~certValid'.valid /\ ~options.allowExpiredCertificates
       THEN /\ errors' = Append(errors,
                   Entry("CERTIFICATE_EXPIRED", certValid'.message, "error"))
            /\ UNCHANGED warnings
       ELSE UNCHANGED <<errors, warnings>>
  /\ pc' = "chain"
  /\ UNCHANGED <<inputVars, trustedCAs, cms, certs, hasSignerInfo, signerCert,
                 signatureValid, chainValid, signedAt, exit, result>>

\* lines 65-81
Validity ==
  /\ pc = "validity"
  /\ UNCHANGED <<signVars, keyVars, expiryVars, moreVars>>
  /\ certValid' = checkCertificateValidity(signerCert, options.allowExpiredCertificates, now)
  /\ IF ~certValid'.valid
       THEN IF options.allowExpiredCertificates
              THEN /\ warnings' = Append(warnings,
                          Entry("CERTIFICATE_EXPIRED", certValid'.message, "warning"))
                   /\ UNCHANGED errors
              ELSE /\ errors' = Append(errors,
                          Entry("CERTIFICATE_EXPIRED", certValid'.message, "error"))
                   /\ UNCHANGED warnings
       ELSE UNCHANGED <<errors, warnings>>
  /\ pc' = "chain"
  /\ UNCHANGED <<inputVars, trustedCAs, cms, certs, hasSignerInfo, signerCert,
                 signatureValid, chainValid, signedAt, exit, result>>

\* the certificates a caller may hand over as trusted: the signer
\* certificate itself, a root under each issuer key, and a root that
\* bears the signer's subject name
TrustedPool ==
  {signerCert} \cup
  {parseCertificate([issuerCN |-> "Root", subjectCN |-> "Root", notBefore |-> 0,
                     notAfter |-> MaxTime * TimeStep, pubKey |-> k, signedBy |-> k])
     : k \in IssuerKeys} \cup
  {parseCertificate([issuerCN |-> "Leaf", subjectCN |-> "Leaf", notBefore |-> 0,
                     notAfter |-> MaxTime * TimeStep, pubKey |-> "rsa2",
                     signedBy |-> "rsa2"])}

\* lists of at most MaxCAs trusted certificates, none of them twice
TrustedLists ==
  UNION {{l \in [1..n -> TrustedPool] : \A i, j \in 1..n : l[i] = l[j] => i = j}
           : n \in 0..MaxCAs}

\* lines 83-94
Chain ==
  /\ pc = "chain"
  /\ UNCHANGED <<signVars, keyVars, expiryVars, moreVars>>
  /\ \E given \in BOOLEAN, list \in TrustedLists :
       /\ (~given => list = <<>>)
       /\ trustedCAs' = [given |-> given, list |-> list]
  /\ chainValid' = validateCertificateChain(signerCert, trustedCAs'.list)
  /\ errors' = IF ~chainValid'.valid
                 THEN Append(errors, Entry("CHAIN_VALIDATION_FAILED",
                                           chainValid'.message, "error"))
                 ELSE errors
  /\ pc' = "timestamp"
  /\ UNCHANGED <<inputVars, cms, certs, hasSignerInfo, signerCert, signatureValid,
                 certValid, signedAt, warnings, exit, result>>

\* extractTimestamp, lines 323-343: the signing-time attribute of the
\* first SignerInfo, when there is one
SigningTimes == IF hasSignerInfo THEN Times \cup {Undefined} ELSE {Undefined}

\* lines 96-112
Timestamp ==
  /\ pc = "timestamp"
  /\ UNCHANGED <<signVars, keyVars, expiryVars, moreVars>>
  /\ \E st \in SigningTimes : signedAt' = st
  /\ warnings' = IF /\ signedAt' # Undefined
                    /\ options.validateTimestamp
                    /\ ~validateTimestampValidity(signedAt', now)
                   THEN Append(warnings, Entry("INVALID_TIMESTAMP",
                                 "Timestamp is outside acceptable range.", "warning"))
                   ELSE warnings
  /\ pc' = "assemble"
  /\ UNCHANGED <<inputVars, trustedCAs, cms, certs, hasSignerInfo, signerCert,
                 signatureValid, certValid, chainValid, errors, exit, result>>

\* line 115 with a slip: only critical entries count
ValidOf_criticalOnly(errs) ==
  \A i \in 1..Len(errs) : errs[i].severity # "critical"

\* line 115
ValidOf(errs) == Len(errs) = 0

\* lines 116-120 with a slip: the warnings are not looked at
StatusOf_noWarnings(valid, warns) ==
  IF valid THEN "valid" ELSE "invalid"

\* lines 116-120
StatusOf(valid, warns) ==
  IF valid THEN (IF Len(warns) > 0 THEN "valid-with-warnings" ELSE "valid")
  ELSE "invalid"

\* line 127 with the signer certificate entered a second time, as its
\* own issuer
CertificateChain_withIssuer(cert) == <<cert, cert>>

\* line 127
CertificateChain(cert) == <<cert>>

\* lines 114-139
Assemble ==
  /\ pc = "assemble"
  /\ UNCHANGED <<signVars, keyVars, expiryVars, moreVars>>
  /\ LET valid == ValidOf(errors)
     IN  result' =
           [valid |-> valid, status |-> StatusOf(valid, warnings),
            errors |-> errors, warnings |-> warnings,
            details |-> [signatureValid |-> signatureValid,
                         certificateValid |-> certValid.valid,
                         chainValid |-> chainValid.valid,
                         timestampValid |-> IF signedAt # Undefined THEN "true"
                                            ELSE "undefined",
                         certificateChain |-> CertificateChain(signerCert),
                         signedAt |-> signedAt,
                         validatedAt |-> timestamp],
            timestamp |-> timestamp]
  /\ pc' = "done"
  /\ exit' = "full"
  /\ UNCHANGED <<inputVars, localVars, trustedCAs, cms, certs, hasSignerInfo,
                 errors, warnings>>

\* an exception that reaches line 140 from a statement no inner try
\* encloses: the reads of options at lines 66 and 86 (a caller without
\* types passing null)
Fault ==
  /\ pc \in {"validity", "chain"}
  /\ UNCHANGED <<signVars, keyVars, expiryVars, moreVars>>
  /\ Catch
  /\ UNCHANGED <<inputVars, localVars, trustedCAs, cms, certs, hasSignerInfo>>

Next ==
  \/ Call
  \/ Parse
  \/ Extract
  \/ Verify
  \/ Validity
  \/ Chain
  \/ Timestamp
  \/ Assemble
  \/ Fault

Spec == Init /\ [][Next]_vars

\* ================================================= signing and round trip
\* src/lib/crypto/signature-generator.ts and the validator as one call

allVars == <<vars, signVars, keyVars, expiryVars, moreVars>>

\* the validator is not in a call
ValidatorIdle ==
  /\ pc = "idle"
  /\ exit = "none"
  /\ now = 0
  /\ options = [allowExpiredCertificates |-> FALSE, validateTimestamp |-> FALSE]
  /\ trustedCAs = NoTrustedCAs
  /\ cms = "unread"
  /\ certs = "unread"
  /\ hasSignerInfo = FALSE
  /\ signerCert = NoCert
  /\ signatureValid = FALSE
  /\ certValid = NoCheck
  /\ chainValid = NoCheck
  /\ signedAt = Undefined
  /\ errors = <<>>
  /\ warnings = <<>>
  /\ timestamp = 0
  /\ result = NoResult

\* HashAlgorithm of the types, and what SignPage passes by default
HashAlgorithms == {"SHA-256", "SHA-512"}
OptionAlgorithms == HashAlgorithms \cup {"SHA256withRSA"}
SignatureFormats == {"pkcs7", "detached", "pdf"}

\* options.algorithm.replace('-', '').toLowerCase()
HashAlgName(a) ==
  CASE a = "SHA-256" -> "sha256"
    [] a = "SHA-512" -> "sha512"
    [] a = "SHA256withRSA" -> "sha256withrsa"

\* lines 22-24 naming RSA whatever the certificate declares
SigAlgOf_alwaysRSA(hashAlg, certificate) ==
  [hash |-> hashAlg, scheme |-> "RSA"]

\* lines 22-24
SigAlgOf(hashAlg, certificate) ==
  [hash |-> hashAlg,
   scheme |-> IF KeyType(certificate.pubKey) = "RSA" THEN "RSA" ELSE "ECDSA"]

\* certificate.raw
RawOf(c) ==
  [issuerCN |-> c.issuerCN, subjectCN |-> c.subjectCN, notBefore |-> c.notBefore,
   notAfter |-> c.notAfter, pubKey |-> c.pubKey, signedBy |-> c.signedBy]

\* the DER of the signed attributes of a SignerInfo, which carry the
\* message digest: what a SignedData with sAttr signs
SignedAttrsHex(md) == [doc |-> md.doc, algs |-> Append(md.algs, "sAttr")]

\* sd.getContentInfo().getEncodedHex(), lines 36-49
SignedDataHex(certificate, hashAlg, sigValue, t) ==
  [encoding |-> "hex", syntax |-> "cms", certs |-> "ok", cert |-> RawOf(certificate),
   si |-> [infos |-> "present", digestAlgorithm |-> hashAlg, signature |-> sigValue],
   signingTime |-> t]

\* the bare signature value of line 30 as a string
SignatureHex(sigValue) ==
  [encoding |-> "hex", syntax |-> "raw", certs |-> "absent", cert |-> NoRaw,
   si |-> [infos |-> "absent", digestAlgorithm |-> "undefined", signature |-> sigValue],
   signingTime |-> Undefined]

\* jsrsasign.hextob64
hextob64(h) == [h EXCEPT !.encoding = "base64"]

\* lines 55-68
SignatureResultOf(signature, certificate, sigAlg, opts, t) ==
  [signature |-> signature,
   format |-> opts.format,
   algorithm |-> sigAlg,
   certificate |-> certificate,
   timestamp |-> IF opts.includeTimestamp THEN t ELSE Undefined,
   metadata |-> [signedAt |-> t,
                 signerInfo |-> certificate.subjectCN,
                 algorithm |-> sigAlg,
                 hashAlgorithm |-> opts.algorithm,
                 certificateFingerprint |-> certificate.sha256]]

Thrown == [outcome |-> "thrown", result |-> NoSignatureResult]

\* lines 4-74; hashHex throws on a name it does not know, and sign on an
\* RSA key under an ECDSA name
createSignature(documentData, certificate, privateKeyPEM, opts, t) ==
  LET documentHex == DocumentHex(documentData)
      hashAlg == HashAlgName(opts.algorithm)
  IN  IF hashAlg \notin DigestAlgs THEN Thrown
      ELSE
        LET documentHash == hashHex(documentHex, hashAlg)
            sigAlg == SigAlgOf(hashAlg, certificate)
        IN  IF ~CanSign(privateKeyPEM, sigAlg.scheme) THEN Thrown
            ELSE
              LET signatureHex == Sign(privateKeyPEM, hashAlg, documentHash)
                  signatureBase64 ==
                    IF opts.format = "pkcs7"
                      THEN hextob64(SignedDataHex(certificate, hashAlg,
                             Sign(privateKeyPEM, hashAlg, SignedAttrsHex(documentHash)), t))
                      ELSE hextob64(SignatureHex(signatureHex))
              IN  [outcome |-> "returned",
                   result |-> SignatureResultOf(signatureBase64, certificate, sigAlg, opts, t)]

\* cms.getCMSSignedData(signature), line 31: the parser reads hexadecimal
\* DER; on any other text it answers nothing or throws
getCMSSignedData(signature, failure) ==
  IF signature.encoding = "hex" /\ signature.syntax = "cms"
    THEN [outcome |-> "object", certs |-> signature.certs, cert |-> signature.cert,
          si |-> signature.si, signingTime |-> signature.signingTime]
    ELSE [outcome |-> failure, certs |-> "absent", cert |-> NoRaw,
          si |-> NoSignerInfo, signingTime |-> Undefined]

\* lines 323-343
extractTimestamp(signedData) ==
  IF signedData.si.infos = "present" THEN signedData.signingTime ELSE Undefined

\* lines 15-149 as one call
validateSignature(document, signature, opts, t, failure) ==
  LET signedData == getCMSSignedData(signature, failure)
  IN  IF signedData.outcome = "throws"
        THEN createValidationResult(FALSE, "invalid",
               <<Entry("VALIDATION_ERROR", "Validation failed", "critical")>>, <<>>, t)
      ELSE IF signedData.outcome = "null"
        THEN createValidationResult(FALSE, "invalid",
               <<Entry("INVALID_SIGNATURE_FORMAT",
                       "Invalid signature format. Expected PKCS#7/CMS.", "critical")>>,
               <<>>, t)
      ELSE IF signedData.certs # "ok"
        THEN createValidationResult(FALSE, "invalid",
               <<Entry("NO_SIGNER_CERTIFICATE",
                       "No signer certificate found in signature.", "critical")>>,
               <<>>, t)
      ELSE
        LET cert == parseCertificate(signedData.cert)
            sigOk == verifySignatureCryptography(document, signedData.si, cert)
            e1 == IF ~sigOk
                    THEN <<Entry("SIGNATURE_VERIFICATION_FAILED",
                      "Signature verification failed. The document may have been modified.",
                      "critical")>>
                    ELSE <<>>
            cv == checkCertificateValidity(cert, opts.allowExpiredCertificates, t)
            e2 == IF ~cv.valid /\ ~opts.allowExpiredCertificates
                    THEN <<Entry("CERTIFICATE_EXPIRED", cv.message, "error")>> ELSE <<>>
            w2 == IF ~cv.valid /\ opts.allowExpiredCertificates
                    THEN <<Entry("CERTIFICATE_EXPIRED", cv.message, "warning")>> ELSE <<>>
            ch == validateCertificateChain(cert, opts.trustedCAs)
            e3 == IF ~ch.valid
                    THEN <<Entry("CHAIN_VALIDATION_FAILED", ch.message, "error")>> ELSE <<>>
            at == extractTimestamp(signedData)
            w4 == IF /\ at # Undefined
                     /\ opts.validateTimestamp
                     /\ ~validateTimestampValidity(at, t)
                    THEN <<Entry("INVALID_TIMESTAMP",
                                 "Timestamp is outside acceptable range.", "warning")>>
                    ELSE <<>>
            errs == e1 \o e2 \o e3
            warns == w2 \o w4
            valid == ValidOf(errs)
        IN  [valid |-> valid, status |-> StatusOf(valid, warns),
             errors |-> errs, warnings |-> warns,
             details |-> [signatureValid |-> sigOk,
                          certificateValid |-> cv.valid,
                          chainValid |-> ch.valid,
                          timestampValid |-> IF at # Undefined THEN "true"
                                             ELSE "undefined",
                          certificateChain |-> CertificateChain(cert),
                          signedAt |-> at,
                          validatedAt |-> t],
             timestamp |-> t]

\* the certificates a signer holds: issued by Root under rsa1, valid from
\* the first day
SigningCerts ==
  {raw \in RawCerts : /\ raw.issuerCN = "Root"
                      /\ raw.signedBy = "rsa1"
                      /\ raw.notBefore = 0}

SignatureOptionsSet ==
  [algorithm: OptionAlgorithms, format: SignatureFormats, includeTimestamp: BOOLEAN]

\* signature strings made by other tools: hexadecimal CMS carrying a
\* signature value of SigValues, or text that is no CMS
ForeignBlobs ==
  {SignedDataHex(parseCertificate(raw), h, sv, Undefined)
     : raw \in SigningCerts, h \in DigestAlgs, sv \in SigValues}
  \cup {SignatureHex(sv) : sv \in SigValues}

\* the options of a validation: {} and everything switched on
ValidationOptionsSet ==
  {NoValidationOptions,
   [allowExpiredCertificates |-> TRUE, validateTimestamp |-> TRUE, trustedCAs |-> <<>>]}

SignInit ==
  /\ ValidatorIdle
  /\ SignIdle
  /\ KeyIdle
  /\ MoreIdle
  /\ ExpiryIdle

\* a call of createSignature; a behaviour follows one signature string
CreateSignature ==
  /\ signCall.outcome = "none"
  /\ blob = NoBlob
  /\ \E d \in Docs, raw \in SigningCerts, k \in Keys,
        opts \in SignatureOptionsSet, t \in Times :
       LET certificate == parseCertificate(raw)
           call == createSignature(d, certificate, k, opts, t)
       IN  signCall' = [outcome |-> call.outcome, document |-> d,
                        certificate |-> certificate, privateKey |-> k,
                        options |-> opts, at |-> t, result |-> call.result]
  /\ blob' = NoBlob
  /\ checked' = NoChecked
  /\ validFor' = {}
  /\ UNCHANGED <<vars, keyVars, expiryVars, moreVars>>

\* result.signature is handed on for validation
KeepSignature ==
  /\ signCall.outcome = "returned"
  /\ blob = NoBlob
  /\ blob' = signCall.result.signature
  /\ checked' = NoChecked
  /\ validFor' = {}
  /\ UNCHANGED <<signCall, vars, keyVars, expiryVars, moreVars>>

\* a signature string from elsewhere is handed in for validation
ForeignSignature ==
  /\ signCall.outcome = "none"
  /\ blob = NoBlob
  /\ \E b \in ForeignBlobs : blob' = b
  /\ signCall' = NoSignCall
  /\ checked' = NoChecked
  /\ validFor' = {}
  /\ UNCHANGED <<vars, keyVars, expiryVars, moreVars>>

\* how the parser fails on a string: it is asked only when the string
\* is no hexadecimal CMS
FailureModes(signature) ==
  IF signature.encoding = "hex" /\ signature.syntax = "cms" THEN {"null"}
  ELSE {"null", "throws"}

\* a call of validateSignature on the signature string at hand; the
\* calls keep no state, so a string is validated a further time only
\* after it has verified
ValidateSignature ==
  /\ blob # NoBlob
  /\ ~checked.made \/ checked.result.details.signatureValid
  /\ \E d \in Docs, opts \in ValidationOptionsSet, t \in Times,
        failure \in FailureModes(blob) :
       LET r == validateSignature(d, blob, opts, t, failure)
       IN  /\ checked' = [made |-> TRUE, document |-> d, options |-> opts,
                          at |-> t, result |-> r]
           /\ validFor' = IF r.details.signatureValid THEN validFor \cup {d}
                          ELSE validFor
  /\ UNCHANGED <<signCall, blob, vars, keyVars, expiryVars, moreVars>>

SignNext ==
  \/ CreateSignature
  \/ KeepSignature
  \/ ForeignSignature
  \/ ValidateSignature

SignSpec == SignInit /\ [][SignNext]_allVars


\* ========================================================= key management
\* src/lib/crypto/key-management.ts

MaxSigns == 2

GarbageKey == "garbage"
KeyBodies == Keys \cup {GarbageKey}

\* password?: string
Passwords == {"undefined", "", "pw", "bad"}

KeyFiles == [marked: BOOLEAN, body: KeyBodies, secret: {"pw"}]

\* KEYUTIL.getKey(pem) answers a key object
getKey(pem) == pem \in Keys

\* !password
NoPassword(password) == password \in {"undefined", ""}

KeyError(decrypted, decoded) ==
  [outcome |-> "thrown", key |-> NoKey, decrypted |-> decrypted, decoded |-> decoded]

\* the decryption of lines 17-19 and the decoding of lines 25-30
DecryptAndDecode(keyData, password) ==
  IF keyData.marked /\ password # keyData.secret THEN KeyError(TRUE, FALSE)
  ELSE IF ~getKey(keyData.body) THEN KeyError(keyData.marked, TRUE)
  ELSE [outcome |-> "returned", key |-> keyData.body,
        decrypted |-> keyData.marked, decoded |-> TRUE]

\* lines 4-34 without the test of lines 13-15
importPrivateKey_noPasswordCheck(keyData, password) ==
  DecryptAndDecode(keyData, password)

\* lines 4-34; every throw inside the try is thrown again at line 32
importPrivateKey(keyData, password) ==
  IF keyData.marked /\ NoPassword(password) THEN KeyError(FALSE, FALSE)
  ELSE DecryptAndDecode(keyData, password)

\* rstrtohex('test-data-for-validation')
testDataHex == DocumentHex(0)

\* lines 36-69 comparing the kinds of the two keys only
validateKeyPair_sameAlgorithm(privateKeyPEM, certificate) ==
  /\ getKey(privateKeyPEM)
  /\ KeyType(privateKeyPEM) = KeyType(certificate.pubKey)

\* lines 36-69; what throws inside the try is answered with false
validateKeyPair(privateKeyPEM, certificate) ==
  IF ~getKey(privateKeyPEM) THEN FALSE
  ELSE IF ~CanSign(privateKeyPEM, "RSA") THEN FALSE
  ELSE VerifyRSA(certificate.pubKey, "sha256", testDataHex,
                 Sign(privateKeyPEM, "sha256", testDataHex))

KeyInit ==
  /\ ValidatorIdle
  /\ SignIdle
  /\ KeyIdle
  /\ MoreIdle
  /\ ExpiryIdle

\* a call of importPrivateKey
ImportPrivateKey ==
  /\ \E keyData \in KeyFiles, password \in Passwords :
       LET r == importPrivateKey(keyData, password)
       IN  keyCall' = [made |-> TRUE, keyData |-> keyData, password |-> password,
                       outcome |-> r.outcome, key |-> r.key,
                       decrypted |-> r.decrypted, decoded |-> r.decoded]
  /\ UNCHANGED <<page, pairCall, vars, signVars, expiryVars, moreVars>>

\* a call of validateKeyPair
ValidateKeyPair ==
  /\ \E k \in KeyBodies, raw \in SigningCerts :
       LET certificate == parseCertificate(raw)
       IN  pairCall' = [made |-> TRUE, privateKey |-> k, certificate |-> certificate,
                        outcome |-> "returned",
                        value |-> validateKeyPair(k, certificate)]
  /\ UNCHANGED <<page, keyCall, vars, signVars, expiryVars, moreVars>>

KeyNext ==
  \/ ImportPrivateKey
  \/ ValidateKeyPair

KeySpec == KeyInit /\ [][KeyNext]_allVars

\* ================================================================ SignPage
\* src/unnamed/part_008

\* the certificates CertificateUpload hands over
PageCerts ==
  {parseCertificate([issuerCN |-> "Root", subjectCN |-> "Leaf", notBefore |-> 0,
                     notAfter |-> MaxTime * TimeStep, pubKey |-> k,
                     signedBy |-> "rsa1"]) : k \in SignerKeys}

\* onCertificateLoaded={setCertificate}
SetCertificate ==
  /\ \E c \in PageCerts : page' = [page EXCEPT !.certificate = c]
  /\ UNCHANGED <<keyCall, pairCall, vars, signVars, expiryVars, moreVars>>

\* onDocumentLoaded={setDocument}
SetDocument ==
  /\ \E d \in Docs : page' = [page EXCEPT !.document = d]
  /\ UNCHANGED <<keyCall, pairCall, vars, signVars, expiryVars, moreVars>>

\* onChange of the password field (lines 139-140)
SetKeyPassword ==
  /\ \E p \in Passwords \ {"undefined"} : page' = [page EXCEPT !.keyPassword = p]
  /\ UNCHANGED <<keyCall, pairCall, vars, signVars, expiryVars, moreVars>>

\* lines 33-53
handleKeyUpload ==
  /\ \E keyData \in KeyFiles :
       LET imported == importPrivateKey(keyData,
                         IF page.keyPassword = "" THEN "undefined"
                         ELSE page.keyPassword)
       IN  page' =
             IF imported.outcome = "returned"
               THEN [page EXCEPT !.error = "", !.privateKey = imported.key]
             ELSE IF page.keyPassword = ""
               THEN [page EXCEPT !.error = "This private key appears to be encrypted. Please provide the password."]
             ELSE [page EXCEPT !.error = "Failed to import private key"]
  /\ UNCHANGED <<keyCall, pairCall, vars, signVars, expiryVars, moreVars>>

\* lines 76-84: document.arrayBuffer() exists on a File, not on the
\* Uint8Array the page passes
signDocument(document, certificate, privateKeyPEM, opts, t) ==
  IF document.kind # "File" THEN Thrown
  ELSE createSignature(document.data, certificate, privateKeyPEM, opts, t)

\* lines 55-79
handleSign ==
  /\ page.signs < MaxSigns
  /\ IF page.certificate = NoCert \/ page.privateKey = NoKey \/ page.document = Undefined
       THEN page' = [page EXCEPT !.error = "Please provide certificate, private key, and document"]
       ELSE \E t \in Times :
              LET call == signDocument([kind |-> "Uint8Array", data |-> page.document],
                                       page.certificate, page.privateKey, page.options, t)
              IN  page' =
                    IF call.outcome = "returned"
                      THEN [page EXCEPT !.error = "", !.result = call.result,
                                        !.isLoading = FALSE, !.signs = @ + 1]
                      ELSE [page EXCEPT !.error = "Failed to sign document",
                                        !.isLoading = FALSE, !.signs = @ + 1]
  /\ UNCHANGED <<keyCall, pairCall, vars, signVars, expiryVars, moreVars>>

PageInit ==
  /\ ValidatorIdle
  /\ SignIdle
  /\ KeyIdle
  /\ MoreIdle
  /\ ExpiryIdle

PageNext ==
  \/ SetCertificate
  \/ SetDocument
  \/ SetKeyPassword
  \/ handleKeyUpload
  \/ handleSign

PageSpec == PageInit /\ [][PageNext]_allVars

\* ============================================== certificate expiration
\* src/lib/crypto/certificate-parser.ts, checkCertificateExpiration; the
\* dates of this part are in milliseconds

MaxTicks == 6

\* 1000 * 60 * 60 * 24
MsPerDay == 86400000

\* the clock is read every half day
HalfDay == MsPerDay \div 2
ExpiryTimes == {k * HalfDay : k \in 0..MaxTicks}

\* lines 112-125 with the distance to notAfter as the day count
checkCertificateExpiration_absDays(cert, t) ==
  [isExpired |-> t > cert.notAfter,
   daysUntilExpiration |->
     IF cert.notAfter >= t THEN (cert.notAfter - t) \div MsPerDay
     ELSE (t - cert.notAfter) \div MsPerDay]

\* lines 112-125 with the day count rounded towards zero
checkCertificateExpiration_trunc(cert, t) ==
  [isExpired |-> t > cert.notAfter,
   daysUntilExpiration |->
     IF cert.notAfter >= t THEN (cert.notAfter - t) \div MsPerDay
     ELSE 0 - ((t - cert.notAfter) \div MsPerDay)]

\* lines 112-125; Math.floor rounds towards minus infinity, as \div does
checkCertificateExpiration(cert, t) ==
  [isExpired |-> t > cert.notAfter,
   daysUntilExpiration |-> (cert.notAfter - t) \div MsPerDay]

ExpiryInit ==
  /\ ValidatorIdle
  /\ SignIdle
  /\ KeyIdle
  /\ MoreIdle
  /\ \E na \in ExpiryTimes : expCert = [notAfter |-> na]
  /\ clock = 0
  /\ expiry = checkCertificateExpiration(expCert, 0)
  /\ earlier = NoEarlier

\* time passes and the certificate is checked again
CheckLater ==
  /\ \E t \in ExpiryTimes :
       /\ t > clock
       /\ clock' = t
  /\ earlier' = [made |-> TRUE, clock |-> clock, expiry |-> expiry]
  /\ expiry' = checkCertificateExpiration(expCert, clock')
  /\ UNCHANGED <<expCert, vars, signVars, keyVars, moreVars>>

ExpiryNext ==
  \/ CheckLater

ExpirySpec == ExpiryInit /\ [][ExpiryNext]_allVars

\* ================================================== certificate parser
\* src/lib/crypto/certificate-parser.ts: formatFingerprint, parsePublicKey

\* the longest string given to formatFingerprint
MaxFp == 3

\* the characters of a string: hexadecimal digits, the colon and a line feed
Chars == {"A", "1", ":", "\n"}
LineTerminators == {"\n"}
Strings == UNION {[1..n -> Chars] : n \in 0..MaxFp}

\* line 128 with the pattern /.{2}/g, which leaves out a last single character
RECURSIVE match_wholePairs(_)
match_wholePairs(str) ==
  IF Len(str) < 2 THEN <<>>
  ELSE IF str[1] \in LineTerminators THEN match_wholePairs(Tail(str))
  ELSE IF str[2] \in LineTerminators THEN match_wholePairs(SubSeq(str, 3, Len(str)))
  ELSE <<SubSeq(str, 1, 2)>> \o match_wholePairs(SubSeq(str, 3, Len(str)))

\* line 128, fingerprint.match(/.{1,2}/g): the matches from left to right,
\* each as long as it can be; a dot matches any character but a line
\* terminator; no match at all gives null, here the empty list
RECURSIVE match(_)
match(str) ==
  IF str = <<>> THEN <<>>
  ELSE IF Head(str) \in LineTerminators THEN match(Tail(str))
  ELSE IF Len(str) >= 2 /\ str[2] \notin LineTerminators
       THEN <<SubSeq(str, 1, 2)>> \o match(SubSeq(str, 3, Len(str)))
       ELSE <<SubSeq(str, 1, 1)>> \o match(Tail(str))

\* line 128, Array.prototype.join
RECURSIVE join(_, _)
join(groups, separator) ==
  IF groups = <<>> THEN <<>>
  ELSE IF Len(groups) = 1 THEN groups[1]
  ELSE groups[1] \o separator \o join(Tail(groups), separator)

\* lines 127-129; null?.join(':') is undefined, and undefined or the empty
\* string gives way to the argument
formatFingerprint(fp) ==
  LET groups == match(fp)
  IN  IF groups = <<>> THEN fp
      ELSE IF join(groups, <<":">>) = <<>> THEN fp
      ELSE join(groups, <<":">>)

\* the key objects x509.getPublicKey() can return: an RSAKey with the bit
\* length of its modulus, a KJUR.crypto.ECDSA with its curve, a
\* KJUR.crypto.DSA
RSABits == {2048, 4096}
Curves == {"secp256r1", "secp384r1", "secp521r1"}
PubKeys ==
  {[class |-> "RSAKey", bits |-> b, curveName |-> ""] : b \in RSABits}
    \cup {[class |-> "ECDSA", bits |-> 0, curveName |-> c] : c \in Curves}
    \cup {[class |-> "DSA", bits |-> 0, curveName |-> ""]}

\* lines 62-81
parsePublicKey(key) ==
  IF key.class = "RSAKey"
  THEN [outcome |-> "returned", algorithm |-> "RSA", keySize |-> key.bits,
        curve |-> "undefined"]
  ELSE IF key.class = "ECDSA"
  THEN [outcome |-> "returned", algorithm |-> "ECDSA", keySize |-> 256,
        curve |-> key.curveName]
  ELSE [outcome |-> "thrown", algorithm |-> "", keySize |-> 0, curve |-> ""]

ParserInit ==
  /\ ValidatorIdle
  /\ SignIdle
  /\ KeyIdle
  /\ ExpiryIdle
  /\ MoreIdle

\* a call of formatFingerprint
FormatFingerprint ==
  /\ \E fp \in Strings :
       /\ fingerprint' = fp
       /\ formatted' = formatFingerprint(fp)
  /\ UNCHANGED <<pubKey, publicKey, vars, signVars, keyVars, expiryVars,
                 uiVars, concVars>>

\* line 35: parseCertificate parses the key of the certificate it reads
ParsePublicKey ==
  /\ \E key \in PubKeys :
       /\ pubKey' = key
       /\ publicKey' = parsePublicKey(key)
  /\ UNCHANGED <<fingerprint, formatted, vars, signVars, keyVars, expiryVars,
                 uiVars, concVars>>

ParserNext ==
  \/ FormatFingerprint
  \/ ParsePublicKey

ParserSpec == ParserInit /\ [][ParserNext]_allVars

\* ======================================================= validate page
\* src/app/validate/page.tsx and src/components/validation/ValidationUpload.tsx
\* The code between two awaits of a handler runs as one step, and React
\* applies the state updates of one step together.

\* the most certificates in the trusted-CA list
MaxTrusted == 3

\* the files a user picks as the document: one that can be read and one
\* that cannot be read any more when arrayBuffer() is called
DocumentFiles ==
  {[data |-> 0, readable |-> TRUE], [data |-> 0, readable |-> FALSE]}

\* the certificates of the signers of the uploaded signatures
UploadSignerCerts == {raw \in SigningCerts : raw.notAfter = TimeStep}

\* the text of the files a user picks as the signature: a hexadecimal CMS
\* of each signer, the base64 string createSignature downloads, and DER
\* bytes
UploadSignatures ==
  {SignedDataHex(parseCertificate(raw), "sha256",
                 Sign(raw.pubKey, "sha256", hashHex(DocumentHex(0), "sha256")),
                 Undefined) : raw \in UploadSignerCerts}
  \cup {hextob64(SignatureHex(Sign("rsa1", "sha256",
                                   hashHex(DocumentHex(0), "sha256")))),
        [NoBlob EXCEPT !.encoding = "binary"]}

\* the files picked in the form: a hexadecimal CMS and DER bytes
SignatureFiles ==
  {[text |-> t, readable |-> TRUE]
     : t \in {b \in UploadSignatures : b.encoding # "base64" /\ b.cert.pubKey # "ec1"}}

\* ValidationUpload.tsx line 43: the text includes BEGIN or consists of
\* characters of the base64 alphabet, as hexadecimal text does
FormatAccepted(text) == text.encoding \in {"pem", "base64", "hex"}

\* a file a user picks as CA certificate: the root under a key; NoCert
\* stands for a file parseCertificate throws on
CAFile(k) ==
  parseCertificate([issuerCN |-> "Root", subjectCN |-> "Root", notBefore |-> 0,
                    notAfter |-> MaxTime * TimeStep, pubKey |-> k, signedBy |-> k])

\* the selections of CA files: one file or two, all of them certificates
\* or one of them not
CABatches ==
  {<<CAFile("rsa1")>>, <<NoCert>>, <<CAFile("rsa1"), CAFile("rsa2")>>,
   <<CAFile("rsa2"), NoCert>>}

\* new Date() while the page validates
PageTimes == {TimeStep, 2 * TimeStep}

\* page.tsx lines 86-101: the upload form is rendered while there is no
\* result and no validation
Mounted == vpage.result = NoResult /\ ~vpage.isValidating

\* ValidationUpload.tsx line 99
canValidate ==
  /\ upload.document # NoFile
  /\ upload.signature # NoBlob
  /\ ~upload.isLoading

\* the upload handlers in flight
InFlight == {i \in 1..MaxLoads : loads[i].kind # "none"}

\* the slot of a handler that starts
FreeSlot == CHOOSE i \in 1..MaxLoads : /\ loads[i].kind = "none"
                                       /\ \A j \in 1..(i - 1) : loads[j].kind # "none"

\* the number of certificates a selection adds to the list: all or none
Adds(files) ==
  IF \A k \in 1..Len(files) : files[k] # NoCert THEN Len(files) ELSE 0

\* the certificates the CA uploads in flight on the rendered form will add
Pending(i) == IF loads[i].kind = "ca" /\ loads[i].live THEN Adds(loads[i].files) ELSE 0
RECURSIVE PendingUpTo(_)
PendingUpTo(n) == IF n = 0 THEN 0 ELSE Pending(n) + PendingUpTo(n - 1)

\* ValidationUpload.tsx lines 32-35
handleDocumentUpload ==
  /\ Mounted
  /\ \E file \in {f \in DocumentFiles : f.readable} :
       upload' = [upload EXCEPT !.document = file]
  /\ vpage' = [vpage EXCEPT !.error = ""]
  /\ UNCHANGED <<loads, run, vars, signVars, keyVars, expiryVars, parserVars, concVars>>

\* ValidationUpload.tsx lines 139-144
ClearDocument ==
  /\ Mounted
  /\ upload.document # NoFile
  /\ upload' = [upload EXCEPT !.document = NoFile]
  /\ UNCHANGED <<loads, vpage, run, vars, signVars, keyVars, expiryVars,
                 parserVars, concVars>>

\* ValidationUpload.tsx lines 195-200
ClearSignature ==
  /\ Mounted
  /\ upload.signature # NoBlob
  /\ upload' = [upload EXCEPT !.signature = NoBlob]
  /\ UNCHANGED <<loads, vpage, run, vars, signVars, keyVars, expiryVars,
                 parserVars, concVars>>

\* ValidationUpload.tsx lines 37-40: up to the await of file.text()
handleSignatureUpload ==
  /\ Mounted
  /\ InFlight # 1..MaxLoads
  /\ \E file \in SignatureFiles :
       loads' = [loads EXCEPT ![FreeSlot] =
                   [NoLoad EXCEPT !.kind = "signature", !.live = TRUE, !.file = file]]
  /\ upload' = [upload EXCEPT !.isLoading = TRUE]
  /\ UNCHANGED <<vpage, run, vars, signVars, keyVars, expiryVars, parserVars, concVars>>

\* ValidationUpload.tsx lines 40-53: file.text() has settled; the updates
\* of a form that is no longer mounted are dropped, onError is the page's
\* setError
SignatureRead ==
  \E i \in InFlight :
    /\ loads[i].kind = "signature"
    /\ LET load == loads[i]
           accepted == load.file.readable /\ FormatAccepted(load.file.text)
       IN  /\ upload' = IF ~load.live THEN upload
                        ELSE IF accepted
                          THEN [upload EXCEPT !.signature = load.file.text,
                                              !.isLoading = FALSE]
                          ELSE [upload EXCEPT !.isLoading = FALSE]
           /\ vpage' = [vpage EXCEPT !.error =
                          IF accepted THEN ""
                          ELSE IF load.file.readable
                            THEN "Invalid signature format. Expected base64 or PEM format."
                            ELSE "The file could not be read."]
    /\ loads' = [loads EXCEPT ![i] = NoLoad]
    /\ UNCHANGED <<run, vars, signVars, keyVars, expiryVars, parserVars, concVars>>

\* ValidationUpload.tsx lines 56-59 and 230-235: up to the first await
handleCAUpload ==
  /\ Mounted
  /\ InFlight # 1..MaxLoads
  /\ \E files \in CABatches :
       /\ Len(upload.trustedCAs) + PendingUpTo(MaxLoads) + Adds(files) <= MaxTrusted
       /\ loads' = [loads EXCEPT ![FreeSlot] =
                      [NoLoad EXCEPT !.kind = "ca", !.live = TRUE, !.files = files]]
  /\ upload' = [upload EXCEPT !.isLoading = TRUE]
  /\ UNCHANGED <<vpage, run, vars, signVars, keyVars, expiryVars, parserVars, concVars>>

\* ValidationUpload.tsx lines 61-75 with the list updated file by file
CAFileRead_fileByFile ==
  \E i \in InFlight :
    /\ loads[i].kind = "ca"
    /\ LET load == loads[i]
           cert == load.files[Len(load.certs) + 1]
           last == Len(load.certs) + 1 = Len(load.files)
       IN  IF cert = NoCert
             THEN /\ vpage' = [vpage EXCEPT !.error = "Failed to parse certificate"]
                  /\ upload' = IF load.live THEN [upload EXCEPT !.isLoading = FALSE]
                               ELSE upload
                  /\ loads' = [loads EXCEPT ![i] = NoLoad]
           ELSE /\ upload' = IF ~load.live THEN upload
                             ELSE [upload EXCEPT
                                     !.trustedCAs = Append(upload.trustedCAs, cert),
                                     !.isLoading = IF last THEN FALSE ELSE @]
                /\ vpage' = IF last THEN [vpage EXCEPT !.error = ""] ELSE vpage
                /\ loads' = [loads EXCEPT ![i] =
                               IF last THEN NoLoad
                               ELSE [load EXCEPT !.certs = Append(load.certs, cert)]]
    /\ UNCHANGED <<run, vars, signVars, keyVars, expiryVars, parserVars, concVars>>

\* ValidationUpload.tsx lines 61-75: file.text() and parseCertificate of
\* the next file have settled; a failure goes to the catch, the last file
\* to lines 68-69, and both to the finally
CAFileRead ==
  \E i \in InFlight :
    /\ loads[i].kind = "ca"
    /\ LET load == loads[i]
           cert == load.files[Len(load.certs) + 1]
           parsed == Append(load.certs, cert)
       IN  IF cert = NoCert
             THEN /\ vpage' = [vpage EXCEPT !.error = "Failed to parse certificate"]
                  /\ upload' = IF load.live THEN [upload EXCEPT !.isLoading = FALSE]
                               ELSE upload
                  /\ loads' = [loads EXCEPT ![i] = NoLoad]
           ELSE IF Len(parsed) < Len(load.files)
             THEN /\ loads' = [loads EXCEPT ![i] = [load EXCEPT !.certs = parsed]]
                  /\ UNCHANGED <<upload, vpage>>
           ELSE /\ upload' = IF ~load.live THEN upload
                             ELSE [upload EXCEPT
                                     !.trustedCAs = upload.trustedCAs \o parsed,
                                     !.isLoading = FALSE]
                /\ vpage' = [vpage EXCEPT !.error = ""]
                /\ loads' = [loads EXCEPT ![i] = NoLoad]
    /\ UNCHANGED <<run, vars, signVars, keyVars, expiryVars, parserVars, concVars>>

\* ValidationUpload.tsx lines 77-79
handleRemoveCA ==
  /\ Mounted
  /\ \E index \in 1..Len(upload.trustedCAs) :
       upload' = [upload EXCEPT !.trustedCAs =
                    SubSeq(@, 1, index - 1) \o SubSeq(@, index + 1, Len(@))]
  /\ UNCHANGED <<loads, vpage, run, vars, signVars, keyVars, expiryVars,
                 parserVars, concVars>>

\* the messages the form hands to onError (ValidationUpload.tsx lines 34,
\* 48-50, 69-71)
FormMessages ==
  {"", "Invalid signature format. Expected base64 or PEM format.",
   "Failed to parse certificate"}

\* what the upload handlers of the form leave in its state: a document, a
\* signature text that passed line 43, a list of CA certificates
LoadedForms ==
  {[document |-> d, signature |-> sig, trustedCAs |-> cas, isLoading |-> FALSE]
     : d \in DocumentFiles,
       sig \in {t \in UploadSignatures : FormatAccepted(t)},
       cas \in {<<>>, <<CAFile("rsa1")>>}}

\* the user has filled in the form (ValidationUpload.tsx lines 32-75)
FilesLoaded ==
  /\ Mounted
  /\ upload = InitialUpload
  /\ \E form \in LoadedForms : upload' = form
  /\ UNCHANGED <<loads, vpage, run, vars, signVars, keyVars, expiryVars,
                 parserVars, concVars>>

\* page.tsx line 100: the form, or a handler of a form no longer
\* rendered, calls onError, which is setError
onError ==
  /\ \E message \in FormMessages : vpage' = [vpage EXCEPT !.error = message]
  /\ UNCHANGED <<upload, loads, run, vars, signVars, keyVars, expiryVars,
                 parserVars, concVars>>

\* page.tsx lines 111-170: a checkbox of the options card
SetOptions ==
  /\ vpage.result = NoResult
  /\ \E name \in {"allowExpiredCertificates", "validateTimestamp"} :
       vpage' = [vpage EXCEPT !.options[name] = ~@]
  /\ UNCHANGED <<upload, loads, run, vars, signVars, keyVars, expiryVars,
                 parserVars, concVars>>

\* the Validate button: ValidationUpload.tsx lines 81-97 and 274-277, then
\* page.tsx lines 28-39 up to the await of arrayBuffer(); the page stops
\* rendering the form, whose state is gone
handleValidate ==
  /\ Mounted
  /\ canValidate
  /\ run.stage \in {"idle", "finished"}
  /\ run' = [stage |-> "reading", document |-> upload.document,
             signature |-> upload.signature, trustedCAs |-> upload.trustedCAs,
             options |-> vpage.options, outcome |-> "none"]
  /\ vpage' = [vpage EXCEPT !.isValidating = TRUE, !.error = "null",
                            !.result = NoResult]
  /\ upload' = InitialUpload
  /\ loads' = [i \in 1..MaxLoads |-> [loads[i] EXCEPT !.live = FALSE]]
  /\ UNCHANGED <<vars, signVars, keyVars, expiryVars, parserVars, concVars>>

\* page.tsx lines 39-43 with 54-58: arrayBuffer() has settled
DocumentRead ==
  /\ run.stage = "reading"
  /\ IF run.document.readable
       THEN /\ run' = [run EXCEPT !.stage = "validating"]
            /\ UNCHANGED vpage
       ELSE /\ run' = [run EXCEPT !.stage = "finished", !.outcome = "error"]
            /\ vpage' = [vpage EXCEPT !.error = "The file could not be read.",
                                      !.isValidating = FALSE]
  /\ UNCHANGED <<upload, loads, vars, signVars, keyVars, expiryVars,
                 parserVars, concVars>>

\* page.tsx lines 43-58 without the finally
Validated_noFinally ==
  /\ run.stage = "validating"
  /\ \E t \in PageTimes, failure \in FailureModes(run.signature) :
       LET validationResult ==
             validateSignature(run.document.data, run.signature,
               [allowExpiredCertificates |-> run.options.allowExpiredCertificates,
                validateTimestamp |-> run.options.validateTimestamp,
                trustedCAs |-> run.trustedCAs], t, failure)
       IN  vpage' = [vpage EXCEPT
                       !.result = validationResult,
                       !.signerCertificate =
                         IF Len(validationResult.details.certificateChain) > 0
                           THEN validationResult.details.certificateChain[1]
                           ELSE @]
  /\ run' = [run EXCEPT !.outcome = "result"]
  /\ UNCHANGED <<upload, loads, vars, signVars, keyVars, expiryVars,
                 parserVars, concVars>>

\* page.tsx lines 43-58: validateSignature has settled; it never rejects
Validated ==
  /\ run.stage = "validating"
  /\ \E t \in PageTimes, failure \in FailureModes(run.signature) :
       LET validationResult ==
             validateSignature(run.document.data, run.signature,
               [allowExpiredCertificates |-> run.options.allowExpiredCertificates,
                validateTimestamp |-> run.options.validateTimestamp,
                trustedCAs |-> run.trustedCAs], t, failure)
       IN  vpage' = [vpage EXCEPT
                       !.result = validationResult,
                       !.signerCertificate =
                         IF Len(validationResult.details.certificateChain) > 0
                           THEN validationResult.details.certificateChain[1]
                           ELSE @,
                       !.isValidating = FALSE]
  /\ run' = [run EXCEPT !.stage = "finished", !.outcome = "result"]
  /\ UNCHANGED <<upload, loads, vars, signVars, keyVars, expiryVars,
                 parserVars, concVars>>

\* page.tsx lines 61-65 without the reset of the signer certificate
handleReset_keepsSigner ==
  /\ vpage.result # NoResult
  /\ vpage' = [vpage EXCEPT !.result = NoResult, !.error = "null"]
  /\ UNCHANGED <<upload, loads, run, vars, signVars, keyVars, expiryVars,
                 parserVars, concVars>>

\* page.tsx lines 61-65 and 205-207: Validate Another Signature
handleReset ==
  /\ vpage.result # NoResult
  /\ vpage' = [vpage EXCEPT !.result = NoResult, !.signerCertificate = NoCert,
                            !.error = "null"]
  /\ UNCHANGED <<upload, loads, run, vars, signVars, keyVars, expiryVars,
                 parserVars, concVars>>

\* the first render of the page and of the form in it
ValidatePageInit ==
  /\ ValidatorIdle
  /\ SignIdle
  /\ KeyIdle
  /\ ExpiryIdle
  /\ ParserIdle
  /\ ConcIdle
  /\ upload = InitialUpload
  /\ loads = NoLoads
  /\ vpage = InitialValidatePage
  /\ run = NoRun

\* the upload form with what it calls of the page
UploadNext ==
  \/ handleDocumentUpload
  \/ ClearDocument
  \/ ClearSignature
  \/ handleSignatureUpload
  \/ SignatureRead
  \/ handleCAUpload
  \/ CAFileRead
  \/ handleRemoveCA
  \/ handleValidate

UploadSpec == ValidatePageInit /\ [][UploadNext]_allVars

\* the page with what the form calls of it
ValidatePageNext ==
  \/ FilesLoaded
  \/ onError
  \/ SetOptions
  \/ handleValidate
  \/ DocumentRead
  \/ Validated
  \/ handleReset

ValidatePageSpec == ValidatePageInit /\ [][ValidatePageNext]_allVars

\* the promises of arrayBuffer() and validateSignature settle
ValidatePageFairSpec ==
  /\ ValidatePageSpec
  /\ WF_allVars(DocumentRead)
  /\ WF_allVars(Validated)

\* ===================================================== calls in flight
\* validateSignature (signature-validator.ts lines 15-149) stops at the
\* awaits of lines 44 and 84, where other calls run; createSignature
\* (signature-generator.ts lines 4-74) has no await.  Neither file has a
\* variable outside its functions.

\* the arguments of the calls of validateSignature: a signature of each
\* kind, for the document it was made for or another one, with the
\* default options or, a year later, with the timestamp check switched on,
\* a signing time and a CA that did not issue the signer certificate
ConcValidations ==
  {[document |-> d, signature |-> sig, options |-> opts, at |-> t,
    failure |-> failure]
     : d \in {0, 1},
       sig \in {b \in UploadSignatures : FormatAccepted(b) /\ b.cert.pubKey # "ec1"},
       opts \in {NoValidationOptions},
       t \in {TimeStep}, failure \in {"null"}}
  \cup
  {[document |-> d,
    signature |-> IF sig.syntax = "cms" THEN [sig EXCEPT !.signingTime = 0] ELSE sig,
    options |-> [allowExpiredCertificates |-> FALSE, validateTimestamp |-> TRUE,
                 trustedCAs |-> <<CAFile("rsa2")>>],
    at |-> 2 * TimeStep, failure |-> failure]
     : d \in {1},
       sig \in {b \in UploadSignatures : FormatAccepted(b) /\ b.cert.pubKey # "ec1"},
       failure \in {"throws"}}

\* the arguments of the calls of createSignature
ConcSignings ==
  {[document |-> 0, certificate |-> parseCertificate(raw), privateKey |-> raw.pubKey,
    signOptions |-> [algorithm |-> "SHA-256", format |-> f, includeTimestamp |-> FALSE],
    at |-> TimeStep]
     : raw \in UploadSignerCerts, f \in {"pkcs7"}}

\* line 24 with one errors array for all calls
errorsOf_shared(i) == calls[1].errors

\* line 24: the errors array of a call
errorsOf(i) == calls[i].errors

\* line 25: the warnings array of a call
warningsOf(i) == calls[i].warnings

\* lines 140-148
Caught(frame, errs, warns) ==
  [frame EXCEPT
     !.pc = "done",
     !.errors = Append(errs, Entry("VALIDATION_ERROR", "Validation failed", "critical")),
     !.result = createValidationResult(FALSE, "invalid",
                  Append(errs, Entry("VALIDATION_ERROR", "Validation failed", "critical")),
                  warns, frame.at)]

\* lines 24-44: a call of validateSignature up to its first await
ValidateCalled ==
  /\ \E i \in 1..MaxCalls, args \in ConcValidations :
       /\ calls[i].pc \in {"idle", "done"}
       /\ LET frame == [NoFrame EXCEPT !.fn = "validateSignature",
                          !.document = args.document, !.signature = args.signature,
                          !.options = args.options, !.at = args.at,
                          !.failure = args.failure]
              signedData == getCMSSignedData(args.signature, args.failure)
          IN  calls' = [calls EXCEPT ![i] =
                IF signedData.outcome = "throws" THEN Caught(frame, <<>>, <<>>)
                ELSE IF signedData.outcome = "null"
                  THEN [frame EXCEPT
                          !.pc = "done",
                          !.errors = <<Entry("INVALID_SIGNATURE_FORMAT",
                             "Invalid signature format. Expected PKCS#7/CMS.", "critical")>>,
                          !.result = createValidationResult(FALSE, "invalid",
                             <<Entry("INVALID_SIGNATURE_FORMAT",
                                "Invalid signature format. Expected PKCS#7/CMS.",
                                "critical")>>, <<>>, frame.at)]
                ELSE [frame EXCEPT !.pc = "extract"]]
  /\ UNCHANGED <<vars, signVars, keyVars, expiryVars, parserVars, uiVars>>

\* lines 44-84: extractSignerCertificate has settled; up to the await of
\* validateCertificateChain
SignerExtracted ==
  /\ \E i \in 1..MaxCalls :
       /\ calls[i].pc = "extract"
       /\ LET frame == calls[i]
              signedData == getCMSSignedData(frame.signature, frame.failure)
              cert == parseCertificate(signedData.cert)
              sigOk == verifySignatureCryptography(frame.document, signedData.si, cert)
              cv == checkCertificateValidity(cert,
                      frame.options.allowExpiredCertificates, frame.at)
              e0 == errorsOf(i)
              e1 == IF ~sigOk
                      THEN Append(e0, Entry("SIGNATURE_VERIFICATION_FAILED",
                        "Signature verification failed. The document may have been modified.",
                        "critical"))
                      ELSE e0
              e2 == IF ~cv.valid /\ ~frame.options.allowExpiredCertificates
                      THEN Append(e1, Entry("CERTIFICATE_EXPIRED", cv.message, "error"))
                      ELSE e1
              w2 == IF ~cv.valid /\ frame.options.allowExpiredCertificates
                      THEN Append(warningsOf(i),
                                  Entry("CERTIFICATE_EXPIRED", cv.message, "warning"))
                      ELSE warningsOf(i)
          IN  calls' = [calls EXCEPT ![i] =
                IF signedData.certs # "ok"
                  THEN [frame EXCEPT
                          !.pc = "done",
                          !.errors = Append(e0, Entry("NO_SIGNER_CERTIFICATE",
                             "No signer certificate found in signature.", "critical")),
                          !.result = createValidationResult(FALSE, "invalid",
                             Append(e0, Entry("NO_SIGNER_CERTIFICATE",
                               "No signer certificate found in signature.", "critical")),
                             warningsOf(i), frame.at)]
                ELSE [frame EXCEPT !.pc = "chain", !.signerCert = cert,
                                   !.signatureValid = sigOk, !.certValid = cv,
                                   !.errors = e2, !.warnings = w2]]
  /\ UNCHANGED <<vars, signVars, keyVars, expiryVars, parserVars, uiVars>>

\* lines 84-139: validateCertificateChain has settled
ChainValidated ==
  /\ \E i \in 1..MaxCalls :
       /\ calls[i].pc = "chain"
       /\ LET frame == calls[i]
              signedData == getCMSSignedData(frame.signature, frame.failure)
              ch == validateCertificateChain(frame.signerCert, frame.options.trustedCAs)
              errs == IF ~ch.valid
                        THEN Append(errorsOf(i),
                               Entry("CHAIN_VALIDATION_FAILED", ch.message, "error"))
                        ELSE errorsOf(i)
              at == extractTimestamp(signedData)
              warns == IF /\ at # Undefined
                          /\ frame.options.validateTimestamp
                          /\ ~validateTimestampValidity(at, frame.at)
                         THEN Append(warningsOf(i), Entry("INVALID_TIMESTAMP",
                                "Timestamp is outside acceptable range.", "warning"))
                         ELSE warningsOf(i)
              valid == ValidOf(errs)
          IN  calls' = [calls EXCEPT ![i] =
                [frame EXCEPT
                   !.pc = "done", !.errors = errs, !.warnings = warns,
                   !.result =
                     [valid |-> valid, status |-> StatusOf(valid, warns),
                      errors |-> errs, warnings |-> warns,
                      details |-> [signatureValid |-> frame.signatureValid,
                                   certificateValid |-> frame.certValid.valid,
                                   chainValid |-> ch.valid,
                                   timestampValid |-> IF at # Undefined THEN "true"
                                                      ELSE "undefined",
                                   certificateChain |-> CertificateChain(frame.signerCert),
                                   signedAt |-> at,
                                   validatedAt |-> frame.at],
                      timestamp |-> frame.at]]]
  /\ UNCHANGED <<vars, signVars, keyVars, expiryVars, parserVars, uiVars>>

\* signature-generator.ts lines 4-74: a call of createSignature runs to its
\* return or its throw without an await
CreateCalled ==
  /\ \E i \in 1..MaxCalls, args \in ConcSignings :
       /\ calls[i].pc \in {"idle", "done"}
       /\ calls' = [calls EXCEPT ![i] =
            [NoFrame EXCEPT
               !.fn = "createSignature", !.pc = "done",
               !.document = args.document, !.certificate = args.certificate,
               !.privateKey = args.privateKey, !.signOptions = args.signOptions,
               !.at = args.at,
               !.created = createSignature(args.document, args.certificate,
                             args.privateKey, args.signOptions, args.at)]]
  /\ UNCHANGED <<vars, signVars, keyVars, expiryVars, parserVars, uiVars>>

ConcInit ==
  /\ ValidatorIdle
  /\ SignIdle
  /\ KeyIdle
  /\ ExpiryIdle
  /\ ParserIdle
  /\ UiIdle
  /\ calls = [i \in 1..MaxCalls |-> NoFrame]

ConcNext ==
  \/ ValidateCalled
  \/ SignerExtracted
  \/ ChainValidated
  \/ CreateCalled

ConcSpec == ConcInit /\ [][ConcNext]_allVars

\* ================================================================ claims
Codes(entries) == [i \in 1..Len(entries) |-> entries[i].code]
HasCode(entries, c) == \E i \in 1..Len(entries) : entries[i].code = c
Returned == pc = "done"
SelfSigned(c) == c.issuerCN = c.subjectCN
Trusts(list, c) == \E i \in 1..Len(list) : list[i].sha256 = c.sha256

\* C1: every result validateSignature returns, on the two early returns,
\* the full pipeline and the catch path, has valid true exactly when its
\* errors list is empty.
C1_ValidIffNoErrors ==
  Returned => (result.valid <=> Len(result.errors) = 0)

\* a full-pipeline result that is valid although a warning was recorded
C1_Witness ==
  /\ Returned /\ exit = "full"
  /\ result.valid /\ Len(result.warnings) > 0

\* C2: the status of every returned result follows from valid and the
\* number of warnings: valid without warnings, valid-with-warnings,
\* otherwise invalid; unknown is never produced.
C2_StatusFromValidAndWarnings ==
  Returned =>
    /\ result.status # "unknown"
    /\ (result.valid /\ Len(result.warnings) = 0) => result.status = "valid"
    /\ (result.valid /\ Len(result.warnings) > 0) => result.status = "valid-with-warnings"
    /\ ~result.valid => result.status = "invalid"

\* a valid result that carries a warning
C2_Witness ==
  /\ Returned /\ exit = "full"
  /\ result.status = "valid-with-warnings"
  /\ HasCode(result.warnings, "INVALID_TIMESTAMP")

\* C3: when an exception reaches the catch block the result is invalid and
\* its errors list is the single entry VALIDATION_ERROR, critical.
C3_FaultGivesSingleEntry ==
  (Returned /\ exit = "catch") =>
    /\ ~result.valid
    /\ result.status = "invalid"
    /\ Len(result.errors) = 1
    /\ result.errors[1].code = "VALIDATION_ERROR"
    /\ result.errors[1].severity = "critical"

\* C4: a blob that cannot be decoded as CMS SignedData (the parser answers
\* nothing, or it throws) gives an invalid result whose only entry is
\* INVALID_SIGNATURE_FORMAT, critical, with no warning and no check run.
C4_UndecodableIsFormatError ==
  (Returned /\ cms \in {"null", "throws"}) =>
    /\ result.status = "invalid"
    /\ Len(result.errors) = 1
    /\ result.errors[1].code = "INVALID_SIGNATURE_FORMAT"
    /\ result.errors[1].severity = "critical"
    /\ result.warnings = <<>>
    /\ certs = "unread"
    /\ certValid = NoCheck /\ chainValid = NoCheck /\ signedAt = Undefined

\* C5: when the SignedData yields no signer certificate (none embedded, or
\* the first one does not parse) the call returns at once, invalid, with
\* NO_SIGNER_CERTIFICATE (critical) as its only error and no entry of the
\* signature, validity or chain checks.
C5_NoSignerCertificate ==
  (Returned /\ certs \in {"absent", "empty", "unparsable"}) =>
    /\ exit = "nocert"
    /\ ~result.valid
    /\ result.status = "invalid"
    /\ Codes(result.errors) = <<"NO_SIGNER_CERTIFICATE">>
    /\ result.errors[1].severity = "critical"
    /\ \A c \in {"SIGNATURE_VERIFICATION_FAILED", "CERTIFICATE_EXPIRED",
                 "CHAIN_VALIDATION_FAILED"} :
         ~HasCode(result.errors, c) /\ ~HasCode(result.warnings, c)
    /\ certValid = NoCheck /\ chainValid = NoCheck

\* the first embedded certificate did not parse and the call has returned
C5_Witness ==
  /\ Returned /\ certs = "unparsable"
  /\ Len(result.errors) = 1

C7_ExpiredCertificate ==
  (Returned /\ exit = "full" /\ now > signerCert.notAfter) =>
    /\ ~options.allowExpiredCertificates =>
         /\ ~result.valid
         /\ HasCode(result.errors, "CERTIFICATE_EXPIRED")
    /\ (/\ options.allowExpiredCertificates
        /\ result.details.signatureValid
        /\ result.details.chainValid) =>
         /\ result.status = "valid-with-warnings"
         /\ \E i \in 1..Len(result.warnings) :
              /\ result.warnings[i].code = "CERTIFICATE_EXPIRED"
              /\ result.warnings[i].severity = "warning"

\* C8: a signer certificate that is not yet valid always gives an entry in
\* errors, so the result is invalid, whatever allowExpiredCertificates is;
\* it is never reported as a warning.
C8_NotYetValidIsError ==
  (Returned /\ exit = "full" /\ now < signerCert.notBefore) =>
    /\ ~result.valid
    /\ \E i \in 1..Len(result.errors) :
         result.errors[i].message = "Certificate is not yet valid."
    /\ \A i \in 1..Len(result.warnings) :
         result.warnings[i].message # "Certificate is not yet valid."

\* C9: with no trusted CAs (absent or an empty list) the chain check is
\* skipped and passes, for a self-signed signer certificate and for one
\* issued by another name: chainValid is true and no
\* CHAIN_VALIDATION_FAILED error is added.
C9_NoTrustedCAsPasses ==
  /\ (pc \in {"timestamp", "assemble"} /\ Len(trustedCAs.list) = 0) =>
       /\ chainValid.valid
       /\ ~HasCode(errors, "CHAIN_VALIDATION_FAILED")
  /\ (Returned /\ exit = "full" /\ Len(trustedCAs.list) = 0) =>
       /\ result.details.chainValid
       /\ ~HasCode(result.errors, "CHAIN_VALIDATION_FAILED")

\* a self-signed signer certificate validated with options.trustedCAs absent
C9_Witness ==
  /\ Returned /\ exit = "full"
  /\ ~trustedCAs.given
  /\ SelfSigned(signerCert)
  /\ result.details.chainValid

\* C10 as stated: for a self-signed signer certificate chainValid is true
\* when a certificate with its SHA-256 fingerprint is among the trusted
\* CAs and false when it is not.
C10_SelfSignedTrustedIffListed ==
  (Returned /\ exit = "full" /\ SelfSigned(signerCert)) =>
    (result.details.chainValid <=> Trusts(trustedCAs.list, signerCert))

\* C10 amended: for a self-signed signer certificate and a non-empty list
\* of trusted CAs, chainValid is true exactly when a certificate with its
\* SHA-256 fingerprint is in the list.
C10_SelfSignedTrustedIffListedNonEmpty ==
  (Returned /\ exit = "full" /\ SelfSigned(signerCert) /\ Len(trustedCAs.list) > 0) =>
    (result.details.chainValid <=> Trusts(trustedCAs.list, signerCert))

\* a self-signed signer certificate, a trusted CA of the same subject name
\* but another fingerprint, and the chain is invalid
C10_Witness ==
  /\ Returned /\ exit = "full"
  /\ SelfSigned(signerCert)
  /\ Len(trustedCAs.list) > 0
  /\ \E i \in 1..Len(trustedCAs.list) :
       trustedCAs.list[i].subjectCN = signerCert.subjectCN
  /\ ~Trusts(trustedCAs.list, signerCert)
  /\ ~result.details.chainValid

\* C11: for a signer certificate that is not self-signed and a non-empty
\* list of trusted CAs: when no trusted CA bears the issuer's CN the chain
\* is invalid and CHAIN_VALIDATION_FAILED is reported; otherwise the chain
\* is valid exactly when the signer certificate's signature verifies under
\* the public key of the first trusted CA of that name.
C11_IssuedCertificateChain ==
  (Returned /\ exit = "full" /\ ~SelfSigned(signerCert) /\ Len(trustedCAs.list) > 0) =>
    LET named == {i \in 1..Len(trustedCAs.list) :
                    trustedCAs.list[i].subjectCN = signerCert.issuerCN}
    IN  /\ named = {} =>
             /\ ~result.details.chainValid
             /\ HasCode(result.errors, "CHAIN_VALIDATION_FAILED")
        /\ named # {} =>
             LET first == CHOOSE i \in named : \A j \in named : i <= j
             IN  /\ result.details.chainValid
                   <=> (signerCert.signedBy = trustedCAs.list[first].pubKey)
                 /\ result.details.chainValid
                   <=> ~HasCode(result.errors, "CHAIN_VALIDATION_FAILED")

\* the issuer is among the trusted CAs under a key that did not sign the
\* signer certificate, and the chain is invalid
C11_Witness ==
  /\ Returned /\ exit = "full"
  /\ ~SelfSigned(signerCert)
  /\ \E i \in 1..Len(trustedCAs.list) :
       /\ trustedCAs.list[i].subjectCN = signerCert.issuerCN
       /\ trustedCAs.list[i].pubKey # signerCert.signedBy
  /\ ~result.details.chainValid
  /\ HasCode(result.errors, "CHAIN_VALIDATION_FAILED")

\* C12 as stated: details.certificateChain of every returned result holds
\* the signer certificate and nothing else.
C12_ChainAlwaysHoldsSigner ==
  Returned =>
    /\ Len(result.details.certificateChain) = 1
    /\ result.details.certificateChain[1] = signerCert

\* C12 amended: a result of the full pipeline has the signer certificate
\* as its whole certificateChain; a result of an early return or of the
\* catch block has an empty certificateChain.  No result holds a
\* certificate beyond the signer.
C12_ChainIsSignerOrEmpty ==
  Returned =>
    /\ exit = "full" =>
         /\ signerCert # NoCert
         /\ result.details.certificateChain = <<signerCert>>
    /\ exit # "full" => result.details.certificateChain = <<>>

\* a chain check that found the issuer among the trusted CAs, and the
\* issuer is not in the reported chain
C12_Witness ==
  /\ Returned /\ exit = "full"
  /\ ~SelfSigned(signerCert)
  /\ result.details.chainValid
  /\ Len(trustedCAs.list) > 0
  /\ Len(result.details.certificateChain) = 1

\* C13: the timestamp check is advisory.  With options.validateTimestamp
\* set and a signing time in the future or more than 365 days old the
\* result carries the warning INVALID_TIMESTAMP and nothing else changes:
\* no entry goes to errors and valid is decided by the signature,
\* validity and chain checks alone.  Without validateTimestamp, or without
\* a signing time, there is no such warning.
C13_TimestampIsAdvisory ==
  (Returned /\ exit = "full") =>
    /\ HasCode(result.warnings, "INVALID_TIMESTAMP")
         <=> /\ options.validateTimestamp
             /\ signedAt # Undefined
             /\ (signedAt > now \/ now - signedAt > 365)
    /\ ~HasCode(result.errors, "INVALID_TIMESTAMP")
    /\ result.valid
         <=> /\ signatureValid
             /\ chainValid.valid
             /\ (certValid.valid \/ options.allowExpiredCertificates)

\* a signing time more than a year old, reported as a warning on a result
\* that is valid
C13_Witness ==
  /\ Returned /\ exit = "full"
  /\ options.validateTimestamp
  /\ signedAt # Undefined /\ now - signedAt > 365
  /\ result.valid
  /\ HasCode(result.warnings, "INVALID_TIMESTAMP")

\* the signature string at hand was made by the recorded createSignature
\* call, with the private key of the certificate's public key
RoundTrip ==
  /\ signCall.outcome = "returned"
  /\ signCall.privateKey = signCall.certificate.pubKey
  /\ blob = signCall.result.signature
  /\ checked.made
  /\ checked.document = signCall.document
  /\ checked.options = NoValidationOptions

\* C14: validating a document against the signature string createSignature
\* made for it, with the matching key (RSA or ECDSA) and any signature
\* options, gives details.signatureValid = true, and with options {} and
\* a certificate valid at the time of validation the status 'valid'.
C14_RoundTripValidates ==
  RoundTrip =>
    /\ checked.result.details.signatureValid
    /\ (/\ signCall.certificate.notBefore <= checked.at
        /\ checked.at <= signCall.certificate.notAfter)
         => checked.result.status = "valid"

\* C15: once a signature string has verified for a document, validating
\* it against another document gives signatureValid false, status
\* 'invalid' and the error SIGNATURE_VERIFICATION_FAILED.
C15_TamperSensitive ==
  (checked.made /\ \E d \in validFor : d # checked.document) =>
    /\ ~checked.result.details.signatureValid
    /\ checked.result.status = "invalid"
    /\ HasCode(checked.result.errors, "SIGNATURE_VERIFICATION_FAILED")

\* a signature string that verified for one document and was then
\* validated against another
C15_Witness ==
  /\ checked.made
  /\ validFor # {}
  /\ checked.document \notin validFor
  /\ checked.result.status = "invalid"
  /\ Codes(checked.result.errors) = <<"SIGNATURE_VERIFICATION_FAILED">>

C16_KeyPairMatches ==
  pairCall.made =>
    /\ pairCall.outcome = "returned"
    /\ pairCall.value <=> pairCall.privateKey = pairCall.certificate.pubKey

\* a genuine ECDSA pair, answered with true
C16_Witness ==
  /\ pairCall.made
  /\ KeyType(pairCall.certificate.pubKey) = "ECDSA"
  /\ pairCall.privateKey = pairCall.certificate.pubKey
  /\ pairCall.value

\* C18: after a signing attempt on the sign page, on the success and on
\* the failure path, the page no longer holds the private key, which so
\* serves one sign operation only.
C18_KeyScrubbedAfterSign ==
  page.signs > 0 => (page.privateKey = NoKey /\ page.signs = 1)

\* C20: importPrivateKey throws, returning no key, whenever the key data
\* carries the marker and no password is given, before any decryption or
\* decoding is tried; a failure of the import is always thrown, and a key
\* is returned only when decryption and decoding went through.
C20_EncryptedNeedsPassword ==
  keyCall.made =>
    /\ (keyCall.keyData.marked /\ NoPassword(keyCall.password))
         => /\ keyCall.outcome = "thrown"
            /\ ~keyCall.decrypted
            /\ ~keyCall.decoded
    /\ keyCall.outcome \in {"returned", "thrown"}
    /\ keyCall.outcome = "thrown" => keyCall.key = NoKey
    /\ keyCall.outcome = "returned"
         => /\ keyCall.key = keyCall.keyData.body
            /\ keyCall.key \in Keys
            /\ keyCall.keyData.marked => keyCall.password = keyCall.keyData.secret

\* an encrypted key file imported with an empty password
C20_Witness ==
  /\ keyCall.made
  /\ keyCall.keyData.marked
  /\ keyCall.keyData.body \in Keys
  /\ keyCall.password = ""
  /\ keyCall.outcome = "thrown"

\* C19: between two checks of one certificate, the second at a later
\* time, isExpired never goes back from true to false and
\* daysUntilExpiration is strictly smaller at the second.
C19_StrictlyDecreasing ==
  earlier.made =>
    /\ earlier.expiry.isExpired => expiry.isExpired
    /\ expiry.daysUntilExpiration < earlier.expiry.daysUntilExpiration

\* C19 as the code has it: isExpired is true exactly from the first
\* moment after notAfter and so never goes back; daysUntilExpiration, a
\* whole number of days, never grows as time advances and is smaller
\* whenever a whole day or more has passed.
C19_NeverIncreasing ==
  /\ expiry.isExpired <=> clock > expCert.notAfter
  /\ earlier.made =>
       /\ earlier.expiry.isExpired => expiry.isExpired
       /\ expiry.daysUntilExpiration <= earlier.expiry.daysUntilExpiration
       /\ clock - earlier.clock >= MsPerDay
            => expiry.daysUntilExpiration < earlier.expiry.daysUntilExpiration

\* two checks less than a day apart with notAfter in between: isExpired
\* has turned true and the day count has dropped
C19_Witness ==
  /\ earlier.made
  /\ clock - earlier.clock < MsPerDay
  /\ ~earlier.expiry.isExpired
  /\ expiry.isExpired
  /\ expiry.daysUntilExpiration < earlier.expiry.daysUntilExpiration

\* the string has no colon
ColonFree(str) == \A i \in 1..Len(str) : str[i] # ":"

\* the string has no line terminator
OneLine(str) == \A i \in 1..Len(str) : str[i] \notin LineTerminators

WithoutColons(str) == SelectSeq(str, LAMBDA c : c # ":")
WithoutLineTerminators(str) == SelectSeq(str, LAMBDA c : c \notin LineTerminators)

\* out is str cut into groups of two characters from the left (the last
\* group has one character when the length is odd) with a colon between
\* neighbouring groups
PairsJoined(str, out) ==
  /\ Len(out) = IF str = <<>> THEN 0 ELSE Len(str) + (Len(str) + 1) \div 2 - 1
  /\ \A i \in 1..Len(out) :
       IF i % 3 = 0 THEN out[i] = ":" ELSE out[i] = str[i - i \div 3]

CurveBits(curve) ==
  CASE curve = "secp256r1" -> 256
    [] curve = "secp384r1" -> 384
    [] curve = "secp521r1" -> 521

\* C23: for an ECDSA key the parsed publicKey names the curve and has the
\* bit length of that curve as keySize; a key that is neither RSA nor ECDSA
\* makes parsing fail.
C23_CurveDecidesKeySize ==
  /\ pubKey.class = "ECDSA" =>
       /\ publicKey.outcome = "returned"
       /\ publicKey.algorithm = "ECDSA"
       /\ publicKey.curve = pubKey.curveName
       /\ publicKey.keySize = CurveBits(pubKey.curveName)
  /\ pubKey.class \notin {"RSAKey", "ECDSA", "none"} => publicKey.outcome = "thrown"

\* C25: daysUntilExpiration is the floor of (notAfter - now) / 86,400,000,
\* the largest whole number of days not above the difference, and isExpired
\* is true if and only if daysUntilExpiration is negative.
C25_FloorDaysAgreeWithExpired ==
  /\ expiry.daysUntilExpiration * MsPerDay <= expCert.notAfter - clock
  /\ expCert.notAfter - clock < (expiry.daysUntilExpiration + 1) * MsPerDay
  /\ expiry.isExpired <=> expiry.daysUntilExpiration < 0

\* the certificate ran out half a day ago: the day count is -1
C25_Witness ==
  /\ clock - expCert.notAfter = HalfDay
  /\ expiry.isExpired
  /\ expiry.daysUntilExpiration = -1

\* the number of entries of errors and warnings together that bear the code
Occurrences(res, c) ==
  Cardinality({i \in 1..Len(res.errors) : res.errors[i].code = c})
    + Cardinality({i \in 1..Len(res.warnings) : res.warnings[i].code = c})

\* the three detail flags of a result are false exactly when the entry of
\* the failed check is reported, and no such entry is reported twice
FlagsMirrorEntries(res) ==
  /\ ~res.details.signatureValid
       <=> HasCode(res.errors, "SIGNATURE_VERIFICATION_FAILED")
  /\ ~res.details.chainValid <=> HasCode(res.errors, "CHAIN_VALIDATION_FAILED")
  /\ ~res.details.certificateValid
       <=> \/ HasCode(res.errors, "CERTIFICATE_EXPIRED")
           \/ HasCode(res.warnings, "CERTIFICATE_EXPIRED")
  /\ \A c \in {"SIGNATURE_VERIFICATION_FAILED", "CHAIN_VALIDATION_FAILED",
               "CERTIFICATE_EXPIRED"} : Occurrences(res, c) <= 1

\* the call found a signer certificate: it is past the parse of the
\* signature and the extraction of the certificate
PastStructuralSteps == signerCert # NoCert

\* C26 (as stated): in every result of a call that got past the two
\* structural steps the detail flags mirror the reported entries.
C26_FlagsMirrorEntries ==
  Returned /\ PastStructuralSteps => FlagsMirrorEntries(result)

\* C26 (amended): the detail flags mirror the reported entries in every
\* result the full pipeline returns; a result the catch block returns
\* after the structural steps has the three flags false whatever was
\* reported, and reports none of the three codes twice.
C26_FlagsMirrorEntriesOfFullResult ==
  Returned /\ PastStructuralSteps =>
    /\ exit \in {"full", "catch"}
    /\ exit = "full" => FlagsMirrorEntries(result)
    /\ exit = "catch" =>
         /\ ~result.details.signatureValid
         /\ ~result.details.certificateValid
         /\ ~result.details.chainValid
         /\ \A c \in {"SIGNATURE_VERIFICATION_FAILED", "CHAIN_VALIDATION_FAILED",
                      "CERTIFICATE_EXPIRED"} : Occurrences(result, c) <= 1

\* a full result with a certificate failure reported as a warning, beside
\* a failed signature and a failed chain
C26_Witness ==
  /\ Returned /\ exit = "full"
  /\ ~result.details.signatureValid
  /\ ~result.details.chainValid
  /\ ~result.details.certificateValid
  /\ HasCode(result.warnings, "CERTIFICATE_EXPIRED")
  /\ Len(result.errors) = 2

\* C29: a result whose warnings contain INVALID_TIMESTAMP never has
\* details.timestampValid = true, and timestampValid is undefined exactly
\* when no signing time was extracted.
C29_TimestampValidMeansChecked ==
  Returned =>
    /\ HasCode(result.warnings, "INVALID_TIMESTAMP")
         => result.details.timestampValid # "true"
    /\ result.details.timestampValid = "undefined" <=> signedAt = Undefined

C27_ValidateWaitsForUploads ==
  /\ Mounted /\ canValidate => InFlight = {}
  /\ run.stage # "idle" =>
       \A i \in InFlight :
         loads[i].kind = "ca" => \E k \in 1..Len(loads[i].files) :
                                   loads[i].files[k] = NoCert

\* C28: whenever the page displays a result, the signer certificate it
\* holds is the first element of the result's details.certificateChain,
\* or null when that list is empty.
C28_SignerIsOfDisplayedResult ==
  vpage.result # NoResult =>
    vpage.signerCertificate =
      IF vpage.result.details.certificateChain = <<>> THEN NoCert
      ELSE vpage.result.details.certificateChain[1]

\* a result with the certificate of the second signer is displayed
C28_Witness ==
  /\ vpage.result # NoResult
  /\ Len(vpage.result.details.certificateChain) = 1
  /\ vpage.signerCertificate.pubKey = "ec1"
  /\ vpage.signerCertificate = vpage.result.details.certificateChain[1]

\* C30: every validation started on the page finishes with isValidating
\* false; result is null as long as isValidating is true; the step that
\* finishes a run has set a result and left the error alone, or has set an
\* error message and left the result null.
C30_ValidationFinishes ==
  /\ vpage.isValidating ~> ~vpage.isValidating
  /\ [](vpage.isValidating => vpage.result = NoResult)
  /\ [][(run.stage # "finished" /\ run'.stage = "finished") =>
          /\ ~vpage'.isValidating
          /\ \/ /\ run'.outcome = "result"
                /\ vpage'.result # NoResult
                /\ vpage'.error = vpage.error
             \/ /\ run'.outcome = "error"
                /\ vpage'.result = NoResult
                /\ vpage'.error \notin {"null", ""}]_allVars

\* a run that could not read the document has finished with a message
C30_Witness ==
  /\ run.stage = "finished"
  /\ run.outcome = "error"
  /\ ~vpage.isValidating
  /\ vpage.result = NoResult
  /\ vpage.error = "The file could not be read."

\* C21: calls in flight together share no state.  Whatever the
\* interleaving at the awaits, a call that has returned has returned what
\* the same call returns when it runs alone with the same arguments and
\* clock.
C21_CallsDoNotInterfere ==
  \A i \in 1..MaxCalls :
    calls[i].pc = "done" =>
      /\ calls[i].fn = "validateSignature" =>
           calls[i].result = validateSignature(calls[i].document, calls[i].signature,
                               calls[i].options, calls[i].at, calls[i].failure)
      /\ calls[i].fn = "createSignature" =>
           calls[i].created = createSignature(calls[i].document, calls[i].certificate,
                                calls[i].privateKey, calls[i].signOptions, calls[i].at)

\* a call has returned errors and a warning of its own while another
\* call, with no error so far, waits for its chain validation
C21_Witness ==
  \E i, j \in 1..MaxCalls :
    /\ calls[i].fn = "validateSignature" /\ calls[i].pc = "done"
    /\ Len(calls[i].result.errors) >= 2
    /\ Len(calls[i].result.warnings) = 1
    /\ calls[j].fn = "validateSignature" /\ calls[j].pc = "chain"
    /\ calls[j].errors = <<>>

====
